---------------------------- MODULE Spec2Model ----------------------------
(***************************************************************************)
(* Token ledger of the CBDC simulation: the central bank's SQLite tables   *)
(* (tokens, token_batches, ledger, financial_institutions, nullifiers) and *)
(* the operations of central_bank/database.py over them, with the helpers  *)
(* of shared/token_utils.py.                                               *)
(*                                                                         *)
(* A serial number is modelled by the token's row number (the code draws   *)
(* it from a hash of fresh entropy; the table's PRIMARY KEY keeps it       *)
(* unique).  A timestamp is the value of a logical clock that advances by  *)
(* one with every call.  SQL NULL is 0.                                    *)
(***************************************************************************)
EXTENDS Integers, Sequences, FiniteSets, TLC

VARIABLES
    db,      \* the committed content of the central bank's database
    clock,   \* the time a call reads
    last,    \* what the last call made on its own returned
    conn,    \* the connections of the transfers that run concurrently
    writer,  \* the connection that holds the database's write lock, or 0
    se,      \* per owner, the secure element: staged tokens, flag, queue
    nonces   \* the number of transfer proofs issued so far

vars == <<db, clock, last, conn, writer, se, nonces>>

(***************************************************************************)
(* Bounds of the model and the inputs the operations are called with.      *)
(***************************************************************************)
MaxClock == 4
MaxTokens == 4

DenominationInputs == {3, 100}
CountInputs == {0, 1, 2}
AmountInputs == {0, 50, 150}
FiIds == {"FI-A", "FI-B"}
Entities == {"CB"} \cup FiIds
DenominationCountInputs ==
    { <<<<100, 1>>, <<50, 1>>>>, <<<<100, 1>>, <<3, 1>>>>,
      <<<<50, 1>>, <<100, 0>>>> }

(***************************************************************************)
(* shared/token_utils.py                                                   *)
(***************************************************************************)
DENOMINATIONS == <<1, 2, 5, 10, 20, 50, 100, 200, 500, 2000>>

DenominationSet == { DENOMINATIONS[i] : i \in 1..Len(DENOMINATIONS) }

RECURSIVE SumSeq(_)
SumSeq(s) == IF s = <<>> THEN 0 ELSE Head(s) + SumSeq(Tail(s))

\* sorted(DENOMINATIONS, reverse=True)
RECURSIVE SortedAscending(_)
SortedAscending(S) ==
    IF S = {} THEN <<>>
    ELSE LET least == CHOOSE x \in S : \A y \in S : x <= y
         IN  <<least>> \o SortedAscending(S \ {least})

RECURSIVE SortedDescending(_)
SortedDescending(S) ==
    IF S = {} THEN <<>>
    ELSE LET m == CHOOSE x \in S : \A y \in S : y <= x
         IN  <<m>> \o SortedDescending(S \ {m})

\* the body of make_change's for/while loops, from denomination number i on
RECURSIVE MakeChangeOnce(_, _, _)
MakeChangeOnce(denoms, remaining, i) ==
    IF i > Len(denoms) THEN <<>>
    ELSE IF remaining >= denoms[i]
         THEN <<denoms[i]>> \o MakeChangeOnce(denoms, remaining - denoms[i], i + 1)
         ELSE MakeChangeOnce(denoms, remaining, i + 1)

RECURSIVE MakeChangeFrom(_, _, _)
MakeChangeFrom(denoms, remaining, i) ==
    IF i > Len(denoms) THEN <<>>
    ELSE IF remaining >= denoms[i]
         THEN <<denoms[i]>> \o MakeChangeFrom(denoms, remaining - denoms[i], i)
         ELSE MakeChangeFrom(denoms, remaining, i + 1)

make_change(amount) ==
    IF amount <= 0 THEN <<>>
    ELSE MakeChangeFrom(SortedDescending(DenominationSet), amount, 1)

(***************************************************************************)
(* central_bank/database.py: rows and queries                              *)
(***************************************************************************)
EmptyDb ==
    [ tokens |-> <<>>, token_batches |-> <<>>, ledger |-> <<>>,
      financial_institutions |-> {}, nullifiers |-> <<>> ]

\* INSERT INTO tokens (...) VALUES (?, ?, 'active', 'CB', 'cb', ?, ?)
NewTokenSpent(serial, denomination, timestamp, batch_id) ==
    [ serial_number |-> serial, denomination |-> denomination,
      status |-> "spent", current_owner |-> "CB", owner_type |-> "cb",
      minted_at |-> timestamp, batch_id |-> batch_id, last_transfer_at |-> 0 ]

NewToken(serial, denomination, timestamp, batch_id) ==
    [ serial_number |-> serial, denomination |-> denomination,
      status |-> "active", current_owner |-> "CB", owner_type |-> "cb",
      minted_at |-> timestamp, batch_id |-> batch_id, last_transfer_at |-> 0 ]

\* the rows one minting loop inserts, one per denomination of the list
RECURSIVE InsertTokens(_, _, _, _)
InsertTokens(tokens, denoms, timestamp, batch_id) ==
    IF denoms = <<>> THEN tokens
    ELSE InsertTokens(
            Append(tokens, NewToken(Len(tokens) + 1, Head(denoms), timestamp, batch_id)),
            Tail(denoms), timestamp, batch_id)

\* [t['serial_number'] for t in tokens] of the rows added after row number n
NewSerials(tokens, n) == [ i \in 1..(Len(tokens) - n) |-> n + i ]

\* the list of dicts {'serial_number', 'denomination'} a mint returns
NewTokenDicts(tokens, n) ==
    [ i \in 1..(Len(tokens) - n) |->
        [ serial_number |-> n + i, denomination |-> tokens[n + i].denomination ] ]

LedgerEntry(type, from, to, serials, amount, timestamp, n) ==
    [ id |-> <<type, n>>, transaction_type |-> type, from_entity |-> from,
      to_entity |-> to, token_serials |-> serials, total_amount |-> amount,
      timestamp |-> timestamp ]

\* what a call returns: the database it leaves, and its result dict
Result(d, status, tokens, amount) ==
    [ db |-> d, status |-> status, tokens |-> tokens, amount |-> amount ]

Repeat(x, n) == [ i \in 1..n |-> x ]

Range(s) == { s[i] : i \in 1..Len(s) }


RECURSIVE TokensAmount(_)
TokensAmount(ts) ==
    IF ts = <<>> THEN 0 ELSE Head(ts).denomination + TokensAmount(Tail(ts))

\* SELECT SUM(denomination) FROM tokens WHERE current_owner = ? AND status = 'active'
Balance(d, owner) ==
    LET Keep(t) == t.current_owner = owner /\ t.status = "active"
    IN  TokensAmount(SelectSeq(d.tokens, Keep))

\* ORDER BY denomination DESC; rows of one denomination stay in row order
RECURSIVE OrderByDenominationDesc(_)
OrderByDenominationDesc(ts) ==
    IF ts = <<>> THEN <<>>
    ELSE LET rest == OrderByDenominationDesc(SubSeq(ts, 1, Len(ts) - 1))
             t == ts[Len(ts)]
             k == Cardinality({ i \in 1..Len(rest) :
                                  rest[i].denomination >= t.denomination })
         IN  SubSeq(rest, 1, k) \o <<t>> \o SubSeq(rest, k + 1, Len(rest))

\* sorted(available, key=lambda t: t['denomination']): ascending and stable
RECURSIVE SortedByDenomination(_)
SortedByDenomination(ts) ==
    IF ts = <<>> THEN <<>>
    ELSE LET rest == SortedByDenomination(SubSeq(ts, 1, Len(ts) - 1))
             t == ts[Len(ts)]
             k == Cardinality({ i \in 1..Len(rest) :
                                  rest[i].denomination <= t.denomination })
         IN  SubSeq(rest, 1, k) \o <<t>> \o SubSeq(rest, k + 1, Len(rest))

\* the columns serial_number, denomination of the rows
Columns(rows) ==
    [ i \in 1..Len(rows) |->
        [ serial_number |-> rows[i].serial_number,
          denomination |-> rows[i].denomination ] ]

\* SELECT serial_number, denomination FROM tokens
\* WHERE current_owner = 'CB' AND status = 'active' ORDER BY denomination DESC
AvailableInVault(d) ==
    LET Keep(t) == t.current_owner = "CB" /\ t.status = "active"
    IN  OrderByDenominationDesc(Columns(SelectSeq(d.tokens, Keep)))

(***************************************************************************)
(* Minting                                                                 *)
(***************************************************************************)
\* total_amount of mint_tokens' ledger entry
MintTotalValueNoCount(denomination, count) == denomination

MintTotalValue(denomination, count) == denomination * count

mint_tokens(d, denomination, count, timestamp) ==
    IF denomination \notin DenominationSet
    THEN Result(d, "error", <<>>, 0)
    ELSE IF count <= 0 \/ count > 10000
    THEN Result(d, "error", <<>>, 0)
    ELSE LET n == Len(d.tokens)
             batch_id == <<Len(d.token_batches) + 1, 0>>
             tokens == InsertTokens(d.tokens, Repeat(denomination, count),
                                    timestamp, batch_id)
             batch == [ batch_id |-> batch_id, denomination |-> denomination,
                        count |-> count, minted_at |-> timestamp ]
             entry == LedgerEntry("mint", "CENTRAL_BANK", "CB_VAULT",
                                  NewSerials(tokens, n),
                                  MintTotalValue(denomination, count),
                                  timestamp, Len(d.ledger) + 1)
         IN  Result([ d EXCEPT !.tokens = tokens,
                               !.token_batches = Append(@, batch),
                               !.ledger = Append(@, entry) ],
                    "success", NewTokenDicts(tokens, n),
                    denomination * count)

\* the validation loop of mint_specific_denominations
DenominationCountsValidFirst(denomination_counts) ==
    \A i \in 1..Len(denomination_counts) :
        i = 1 => /\ denomination_counts[i][1] \in DenominationSet
                 /\ denomination_counts[i][2] > 0
                 /\ denomination_counts[i][2] <= 10000

DenominationCountsValid(denomination_counts) ==
    \A i \in 1..Len(denomination_counts) :
        /\ denomination_counts[i][1] \in DenominationSet
        /\ denomination_counts[i][2] > 0
        /\ denomination_counts[i][2] <= 10000

\* the minting loop of mint_specific_denominations, from entry i on: the
\* tokens and the per-denomination batch rows
RECURSIVE MintSpecificLoop(_, _, _, _, _)
MintSpecificLoop(d, denomination_counts, i, timestamp, batch_no) ==
    IF i > Len(denomination_counts) THEN d
    ELSE LET denom == denomination_counts[i][1]
             count == denomination_counts[i][2]
         IN  IF count <= 0
             THEN MintSpecificLoop(d, denomination_counts, i + 1, timestamp, batch_no)
             ELSE MintSpecificLoop(
                    [ d EXCEPT
                        !.tokens = InsertTokens(@, Repeat(denom, count), timestamp,
                                                <<batch_no, 0>>),
                        !.token_batches =
                            Append(@, [ batch_id |-> <<batch_no, denom>>,
                                        denomination |-> denom, count |-> count,
                                        minted_at |-> timestamp ]) ],
                    denomination_counts, i + 1, timestamp, batch_no)

mint_specific_denominations(d, denomination_counts, timestamp) ==
    IF ~DenominationCountsValid(denomination_counts)
    THEN Result(d, "error", <<>>, 0)
    ELSE LET n == Len(d.tokens)
             minted == MintSpecificLoop(d, denomination_counts, 1, timestamp,
                                        Len(d.token_batches) + 1)
             total_value == TokensAmount(NewTokenDicts(minted.tokens, n))
             entry == LedgerEntry("mint", "CENTRAL_BANK", "CB_VAULT",
                                  NewSerials(minted.tokens, n), total_value,
                                  timestamp, Len(d.ledger) + 1)
         IN  Result([ minted EXCEPT !.ledger = Append(@, entry) ],
                    "success", NewTokenDicts(minted.tokens, n), total_value)

mint_mixed_tokens(d, amount, timestamp) ==
    IF amount <= 0
    THEN Result(d, "error", <<>>, 0)
    ELSE LET denominations_needed == make_change(amount)
         IN  IF SumSeq(denominations_needed) # amount
             THEN Result(d, "error", <<>>, 0)
             ELSE LET n == Len(d.tokens)
                      batch_id == <<Len(d.token_batches) + 1, 0>>
                      tokens == InsertTokens(d.tokens, denominations_needed,
                                             timestamp, batch_id)
                      batch == [ batch_id |-> batch_id, denomination |-> 0,
                                 count |-> Len(denominations_needed),
                                 minted_at |-> timestamp ]
                      entry == LedgerEntry("mint", "CENTRAL_BANK", "CB_VAULT",
                                           NewSerials(tokens, n), amount,
                                           timestamp, Len(d.ledger) + 1)
                  IN  Result([ d EXCEPT !.tokens = tokens,
                                        !.token_batches = Append(@, batch),
                                        !.ledger = Append(@, entry) ],
                             "success", NewTokenDicts(tokens, n), amount)

(***************************************************************************)
(* Institutions and allocation                                             *)
(***************************************************************************)
register_fi(d, fi_id) ==
    IF fi_id \in d.financial_institutions
    THEN Result(d, "error", <<>>, 0)
    ELSE Result([ d EXCEPT !.financial_institutions = @ \cup {fi_id} ],
                "success", <<>>, 0)

\* the first selection loop of allocate_tokens_to_fi: largest first, until
\* the running total reaches the amount
RECURSIVE SelectLargestFirst(_, _, _, _)
SelectLargestFirst(available, amount, i, total) ==
    IF i > Len(available) \/ total >= amount THEN <<>>
    ELSE <<available[i]>>
         \o SelectLargestFirst(available, amount, i + 1,
                               total + available[i].denomination)

\* the second selection loop: smallest first, every token that still fits
RECURSIVE SelectExactTokens(_, _, _, _)
SelectExactTokens(ascending, amount, i, total) ==
    IF i > Len(ascending) THEN <<>>
    ELSE IF total + ascending[i].denomination <= amount
         THEN <<ascending[i]>>
              \o SelectExactTokens(ascending, amount, i + 1,
                                   total + ascending[i].denomination)
         ELSE SelectExactTokens(ascending, amount, i + 1, total)

\* the update also stamps the allocated rows with the time as minted_at
TransferOwnershipRestamps(tokens, selected, fi_id, timestamp) ==
    LET serials == { selected[i].serial_number : i \in 1..Len(selected) }
    IN  [ i \in 1..Len(tokens) |->
            IF tokens[i].serial_number \in serials
            THEN [ tokens[i] EXCEPT !.current_owner = fi_id,
                                    !.owner_type = "fi",
                                    !.minted_at = timestamp,
                                    !.last_transfer_at = timestamp ]
            ELSE tokens[i] ]

\* UPDATE tokens SET current_owner = ?, owner_type = 'fi', last_transfer_at = ?
\* WHERE serial_number = ?, for every selected token
TransferOwnership(tokens, selected, fi_id, timestamp) ==
    LET serials == { selected[i].serial_number : i \in 1..Len(selected) }
    IN  [ i \in 1..Len(tokens) |->
            IF tokens[i].serial_number \in serials
            THEN [ tokens[i] EXCEPT !.current_owner = fi_id,
                                    !.owner_type = "fi",
                                    !.last_transfer_at = timestamp ]
            ELSE tokens[i] ]

SerialsOf(selected) == [ i \in 1..Len(selected) |-> selected[i].serial_number ]

\* lines 380-413: the owner updates, the ledger entry and the commit
AllocateCommit(d, fi_id, selected, total, timestamp) ==
    LET entry == LedgerEntry("allocation", "CB", fi_id, SerialsOf(selected),
                             total, timestamp, Len(d.ledger) + 1)
    IN  Result([ d EXCEPT
                   !.tokens = TransferOwnership(@, selected, fi_id, timestamp),
                   !.ledger = Append(@, entry) ],
               "success", selected, total)

\* lines 371-378 and what follows them: the connection is closed, the whole
\* amount is minted through mint_mixed_tokens' own connection (and
\* committed), and the first statement on the closed connection's cursor
\* raises sqlite3.ProgrammingError
AllocateAfterClose(d, fi_id, amount, timestamp) ==
    LET mint_result == mint_mixed_tokens(d, amount, timestamp)
    IN  IF mint_result.status = "error" THEN mint_result
        ELSE Result(mint_result.db, "exception", <<>>, 0)

RECURSIVE allocate_tokens_to_fi(_, _, _, _)
allocate_tokens_to_fi(d, fi_id, amount, timestamp) ==
    IF fi_id \notin d.financial_institutions
    THEN Result(d, "error", <<>>, 0)
    ELSE LET available == AvailableInVault(d)
             selected == SelectLargestFirst(available, amount, 1, 0)
             total == TokensAmount(selected)
         IN  IF total < amount
             THEN LET mint_result == mint_mixed_tokens(d, amount - total, timestamp)
                  IN  IF mint_result.status = "error" THEN mint_result
                      ELSE allocate_tokens_to_fi(mint_result.db, fi_id, amount,
                                                 timestamp)
             ELSE IF total > amount
             THEN LET exact == SelectExactTokens(SortedByDenomination(available),
                                                 amount, 1, 0)
                  IN  IF TokensAmount(exact) < amount
                      THEN AllocateAfterClose(d, fi_id, amount, timestamp)
                      ELSE AllocateCommit(d, fi_id, exact, TokensAmount(exact),
                                          timestamp)
             ELSE AllocateCommit(d, fi_id, selected, total, timestamp)

\* the handler without the test of line 129
AllocateUnvalidated(d, fi_id, amount, timestamp) ==
    allocate_tokens_to_fi(d, fi_id, amount, timestamp)

\* api_allocate_to_fi: the request handler in front of allocate_tokens_to_fi
api_allocate_to_fi(d, fi_id, amount, timestamp) ==
    IF amount <= 0 THEN Result(d, "error", <<>>, 0)
    ELSE allocate_tokens_to_fi(d, fi_id, amount, timestamp)

(***************************************************************************)
(* Transfer                                                                *)
(***************************************************************************)
\* SELECT * FROM tokens WHERE serial_number = ? AND current_owner = ?
OwnedRows(tokens, serial, owner) ==
    { i \in 1..Len(tokens) :
        tokens[i].serial_number = serial /\ tokens[i].current_owner = owner }

UpdateOwnerKeepsTime(tokens, serial, to_fi, timestamp) ==
    [ i \in 1..Len(tokens) |->
        IF tokens[i].serial_number = serial
        THEN [ tokens[i] EXCEPT !.current_owner = to_fi ]
        ELSE tokens[i] ]

\* UPDATE tokens SET current_owner = ?, last_transfer_at = ? WHERE serial_number = ?
UpdateOwner(tokens, serial, to_fi, timestamp) ==
    [ i \in 1..Len(tokens) |->
        IF tokens[i].serial_number = serial
        THEN [ tokens[i] EXCEPT !.current_owner = to_fi,
                                !.last_transfer_at = timestamp ]
        ELSE tokens[i] ]

\* the loop of transfer_tokens_between_fis from serial number i on, over the
\* rows as the connection sees them: its own updates included
RECURSIVE TransferLoop(_, _, _, _, _, _, _)
TransferLoop(tokens, from_fi, to_fi, token_serials, timestamp, i, total) ==
    IF i > Len(token_serials)
    THEN [ ok |-> TRUE, tokens |-> tokens, total |-> total, progress |-> i - 1 ]
    ELSE LET rows == OwnedRows(tokens, token_serials[i], from_fi)
         IN  IF rows = {}
             THEN [ ok |-> FALSE, tokens |-> tokens, total |-> total,
                    progress |-> i - 1 ]
             ELSE LET token == tokens[CHOOSE r \in rows : TRUE]
                  IN  TransferLoop(
                        UpdateOwner(tokens, token_serials[i], to_fi, timestamp),
                        from_fi, to_fi, token_serials, timestamp, i + 1,
                        total + token.denomination)

\* conn.close() with no commit: the connection's uncommitted updates are lost
CloseKeepsUpdates(committed, working) == working

CloseWithoutCommit(committed, working) == committed

\* the transfer with its entry written over the log
TransferRewritesLedger(d, from_fi, to_fi, token_serials, timestamp) ==
    LET loop == TransferLoop(d.tokens, from_fi, to_fi, token_serials, timestamp, 1, 0)
        entry == LedgerEntry("cross_fi_transfer", from_fi, to_fi, token_serials,
                             loop.total, timestamp, 1)
    IN  IF ~loop.ok THEN Result(d, "error", <<>>, 0)
        ELSE Result([ d EXCEPT !.tokens = loop.tokens, !.ledger = <<entry>> ],
                    "success", <<>>, loop.total)

\* the transfer that moves the tokens and writes no ledger entry
TransferWithoutEntry(d, from_fi, to_fi, token_serials, timestamp) ==
    LET loop == TransferLoop(d.tokens, from_fi, to_fi, token_serials, timestamp, 1, 0)
    IN  IF ~loop.ok THEN Result(d, "error", <<>>, 0)
        ELSE Result([ d EXCEPT !.tokens = loop.tokens ], "success", <<>>, loop.total)

transfer_tokens_between_fis(d, from_fi, to_fi, token_serials, timestamp) ==
    LET loop == TransferLoop(d.tokens, from_fi, to_fi, token_serials, timestamp, 1, 0)
    IN  IF ~loop.ok
        THEN Result(CloseWithoutCommit(d, [ d EXCEPT !.tokens = loop.tokens ]),
                    "error", <<>>, 0)
        ELSE LET entry == LedgerEntry("cross_fi_transfer", from_fi, to_fi,
                                      token_serials, loop.total, timestamp,
                                      Len(d.ledger) + 1)
             IN  Result([ d EXCEPT !.tokens = loop.tokens,
                                   !.ledger = Append(@, entry) ],
                        "success", <<>>, loop.total)

(***************************************************************************)
(* Money supply                                                            *)
(***************************************************************************)
get_money_supply(d) ==
    LET NotDestroyed(t) == t.status # "destroyed"
        InVault(t) == t.current_owner = "CB" /\ t.status = "active"
        InFis(t) == t.owner_type = "fi" /\ t.status = "active"
        InWallets(t) == t.owner_type = "wallet" /\ t.status = "active"
        InSubwallets(t) == t.owner_type = "subwallet" /\ t.status = "active"
        total_minted == TokensAmount(SelectSeq(d.tokens, NotDestroyed))
        in_cb == TokensAmount(SelectSeq(d.tokens, InVault))
        in_fis == TokensAmount(SelectSeq(d.tokens, InFis))
        in_wallets == TokensAmount(SelectSeq(d.tokens, InWallets))
        in_subwallets == TokensAmount(SelectSeq(d.tokens, InSubwallets))
    IN  [ total_minted |-> total_minted,
          in_circulation |-> total_minted - in_cb,
          in_cb_vault |-> in_cb, in_fis |-> in_fis,
          in_wallets |-> in_wallets, in_subwallets |-> in_subwallets,
          is_balanced |-> (in_cb + in_fis + in_wallets + in_subwallets) = total_minted ]

(***************************************************************************)
(* The calls, one at a time: each is one transaction on the database.      *)
(***************************************************************************)
NoCall == [ op |-> "none", status |-> "none", tokens |-> <<>>, amount |-> 0,
            progress |-> 0, by |-> "" ]

SeOwners == {"W-1"}

Wallets == {"W-1", "W-2"}

\* a secure element before anything is loaded
EmptySE == [ tokens |-> <<>>, online |-> TRUE, queue |-> <<>> ]

Connections == {1, 2}

\* a connection no transfer has been started on
IdleConn ==
    [ pc |-> "idle", from_fi |-> "", to_fi |-> "", token_serials |-> <<>>,
      i |-> 0, total |-> 0, timestamp |-> 0, working |-> <<>>,
      status |-> "none", during |-> {},
      amount |-> 0, selected |-> <<>>, remints |-> 0, attempts |-> 0 ]

Init ==
    /\ db = EmptyDb
    /\ clock = 1
    /\ last = NoCall
    /\ conn = [ c \in Connections |-> IdleConn ]
    /\ writer = 0
    /\ se = [ owner \in SeOwners |-> EmptySE ]
    /\ nonces = 0

\* r is what the call returned; progress counts the serials a transfer moved
Return(op, r, progress) ==
    /\ Len(r.db.tokens) <= MaxTokens
    /\ db' = r.db
    /\ clock' = clock + 1
    /\ last' = [ op |-> op, status |-> r.status, tokens |-> r.tokens,
                 amount |-> r.amount, progress |-> progress, by |-> "" ]
    /\ UNCHANGED <<conn, writer, se, nonces>>

Mint(denomination, count) ==
    Return("mint", mint_tokens(db, denomination, count, clock), 0)

MintExact(denomination_counts) ==
    Return("mint_exact", mint_specific_denominations(db, denomination_counts, clock), 0)

MintMixed(amount) ==
    Return("mint_mixed", mint_mixed_tokens(db, amount, clock), 0)

Register(fi_id) ==
    Return("register", register_fi(db, fi_id), 0)

Allocate(fi_id, amount) ==
    Return("allocate", api_allocate_to_fi(db, fi_id, amount, clock), 0)

\* the serial lists a transfer is called with: one serial, one serial twice,
\* and two neighbouring serials in either order, over the serials of the
\* table and one serial that is in no row
SerialInputs ==
    UNION { { <<s>>, <<s, s>>, <<s, s + 1>>, <<s + 1, s>> } : s \in 1..Len(db.tokens) }

Transfer(from_fi, to_fi, token_serials) ==
    Return("transfer",
           transfer_tokens_between_fis(db, from_fi, to_fi, token_serials, clock),
           TransferLoop(db.tokens, from_fi, to_fi, token_serials, clock, 1, 0).progress)

\* a call is made while the clock is below its bound
Next ==
    \/ /\ clock < MaxClock
       /\ \E denomination \in DenominationInputs, count \in CountInputs :
             Mint(denomination, count)
    \/ /\ clock < MaxClock
       /\ \E denomination_counts \in DenominationCountInputs :
             MintExact(denomination_counts)
    \/ /\ clock < MaxClock
       /\ \E amount \in AmountInputs : MintMixed(amount)
    \/ /\ clock < MaxClock
       /\ \E fi_id \in FiIds : Register(fi_id)
    \/ /\ clock < MaxClock
       /\ \E fi_id \in FiIds, amount \in AmountInputs : Allocate(fi_id, amount)
    \/ /\ clock < MaxClock
       /\ \E from_fi \in Entities, to_fi \in Entities,
             token_serials \in SerialInputs :
             Transfer(from_fi, to_fi, token_serials)

Spec == Init /\ [][Next]_vars

(***************************************************************************)
(* Transfers that run concurrently (specification SpecConc).  Every call   *)
(* of transfer_tokens_between_fis opens its own connection.  Python's      *)
(* sqlite3 module runs a SELECT outside a transaction until the connection *)
(* has written; its first UPDATE opens a transaction and takes the write   *)
(* lock, which it holds until commit or close.  A connection that has not  *)
(* written reads the committed rows; the writer reads its own updates.     *)
(***************************************************************************)
Running(c) == conn[c].pc \notin {"idle", "done"}

\* the rows connection c reads
View(c) == IF writer = c THEN conn[c].working ELSE db.tokens

\* lines 516-520: the call opens its connection and reads the time
BeginTransfer(c, from_fi, to_fi, token_serials) ==
    /\ conn[c].pc = "idle"
    /\ conn' = [ conn EXCEPT ![c] =
                   [ IdleConn EXCEPT !.pc = "select", !.from_fi = from_fi,
                                     !.to_fi = to_fi,
                                     !.token_serials = token_serials,
                                     !.i = 1, !.timestamp = clock,
                                     !.status = "running",
                                     !.during = { o \in Connections \ {c} : Running(o) } ] ]
    /\ clock' = clock + 1
    /\ UNCHANGED <<db, last, writer, se, nonces>>

\* lines 523-531: the ownership SELECT of serial number i.  With no row the
\* connection is closed, which rolls back what it wrote and frees the lock.
SelectToken(c) ==
    LET me == conn[c]
        rows == OwnedRows(View(c), me.token_serials[me.i], me.from_fi)
    IN  /\ me.pc = "select"
        /\ IF rows = {}
           THEN /\ conn' = [ conn EXCEPT ![c].pc = "done", ![c].status = "error",
                                         ![c].working = <<>> ]
                /\ db' = CloseWithoutCommit(db, [ db EXCEPT !.tokens = View(c) ])
                /\ writer' = IF writer = c THEN 0 ELSE writer
           ELSE /\ conn' = [ conn EXCEPT
                               ![c].pc = "update",
                               ![c].total =
                                   @ + View(c)[CHOOSE r \in rows : TRUE].denomination ]
                /\ UNCHANGED <<db, writer>>
        /\ UNCHANGED <<clock, last, se, nonces>>

\* lines 533-537: the UPDATE of serial number i.  The first one takes the
\* write lock and waits while another connection holds it.
UpdateToken(c) ==
    LET me == conn[c]
    IN  /\ me.pc = "update"
        /\ writer \in {0, c}
        /\ writer' = c
        /\ conn' = [ conn EXCEPT
                       ![c].working = UpdateOwner(View(c), me.token_serials[me.i],
                                                  me.to_fi, me.timestamp),
                       ![c].i = @ + 1,
                       ![c].pc = IF me.i + 1 > Len(me.token_serials)
                                 THEN "insert" ELSE "select" ]
        /\ UNCHANGED <<db, clock, last, se, nonces>>

\* the wait for the write lock outlasts the connection's timeout: the UPDATE
\* raises sqlite3.OperationalError and the call ends with nothing written
LockTimeout(c) ==
    /\ conn[c].pc = "update"
    /\ writer \notin {0, c}
    /\ conn' = [ conn EXCEPT ![c].pc = "done", ![c].status = "exception" ]
    /\ UNCHANGED <<db, clock, last, writer, se, nonces>>

\* lines 539-556: the ledger INSERT and the commit, which publishes the
\* connection's updates and frees the lock
CommitTransfer(c) ==
    LET me == conn[c]
        entry == LedgerEntry("cross_fi_transfer", me.from_fi, me.to_fi,
                             me.token_serials, me.total, me.timestamp,
                             Len(db.ledger) + 1)
    IN  /\ me.pc = "insert"
        /\ writer = c
        /\ db' = [ db EXCEPT !.tokens = me.working, !.ledger = Append(@, entry) ]
        /\ writer' = 0
        /\ conn' = [ conn EXCEPT ![c].pc = "done", ![c].status = "success",
                                 ![c].working = <<>> ]
        /\ UNCHANGED <<clock, last, se, nonces>>

\* a mint made while transfers run: its transaction needs the write lock
MintDuringTransfers(denomination, count) ==
    LET r == mint_tokens(db, denomination, count, clock)
    IN  /\ writer = 0
        /\ r.status = "success"
        /\ Len(r.db.tokens) <= MaxTokens
        /\ db' = r.db
        /\ clock' = clock + 1
        /\ UNCHANGED <<last, conn, writer, se, nonces>>

NextConc ==
    \/ /\ clock < MaxClock
       /\ \E denomination \in DenominationInputs, count \in CountInputs :
             MintDuringTransfers(denomination, count)
    \/ /\ clock < MaxClock
       /\ \E c \in Connections, from_fi \in Entities, to_fi \in Entities,
             token_serials \in SerialInputs :
             BeginTransfer(c, from_fi, to_fi, token_serials)
    \/ \E c \in Connections : SelectToken(c)
    \/ \E c \in Connections : UpdateToken(c)
    \/ \E c \in Connections : LockTimeout(c)
    \/ \E c \in Connections : CommitTransfer(c)

SpecConc == Init /\ [][NextConc]_vars

(***************************************************************************)
(* Allocations that run while other calls are made (specification          *)
(* SpecAlloc).  allocate_tokens_to_fi reads the institution and the vault  *)
(* outside a transaction; on a shortfall it closes its connection, mints   *)
(* through mint_mixed_tokens' own connection and calls itself again; its   *)
(* UPDATEs, the ledger INSERT and the commit are one transaction under the *)
(* write lock.                                                             *)
(***************************************************************************)
\* api_allocate_to_fi, lines 127-130, and lines 323-324: the call starts
BeginAllocate(c, fi_id, amount) ==
    /\ conn[c].pc = "idle"
    /\ conn' = [ conn EXCEPT ![c] =
                   IF amount <= 0
                   THEN [ IdleConn EXCEPT !.pc = "done", !.to_fi = fi_id,
                                          !.amount = amount, !.status = "error" ]
                   ELSE [ IdleConn EXCEPT !.pc = "read", !.to_fi = fi_id,
                                          !.amount = amount, !.status = "running",
                                          !.during = { o \in Connections \ {c} :
                                                         Running(o) } ] ]
    /\ clock' = clock + 1
    /\ UNCHANGED <<db, last, writer, se, nonces>>

\* lines 326-369: the institution and the vault are read and the tokens
\* selected; attempts counts the selections the call has made
AllocateRead(c) ==
    LET me == conn[c]
        available == AvailableInVault(db)
        selected == SelectLargestFirst(available, me.amount, 1, 0)
        total == TokensAmount(selected)
        exact == SelectExactTokens(SortedByDenomination(available), me.amount, 1, 0)
    IN  /\ me.pc = "read"
        /\ conn' = [ conn EXCEPT ![c] =
                       IF me.to_fi \notin db.financial_institutions
                       THEN [ me EXCEPT !.pc = "done", !.status = "error" ]
                       ELSE IF total < me.amount
                       THEN [ me EXCEPT !.pc = "remint", !.total = total,
                                        !.attempts = @ + 1 ]
                       ELSE IF total > me.amount /\ TokensAmount(exact) < me.amount
                       THEN [ me EXCEPT !.pc = "closed", !.attempts = @ + 1 ]
                       ELSE [ me EXCEPT !.pc = "write", !.attempts = @ + 1,
                                        !.selected = IF total > me.amount
                                                     THEN exact ELSE selected ] ]
        /\ UNCHANGED <<db, clock, last, writer, se, nonces>>

\* lines 350-358: the shortfall is minted and committed, then the call
\* calls itself; remints counts the mints made for a shortfall
AllocateRemint(c) ==
    LET me == conn[c]
        mint_result == mint_mixed_tokens(db, me.amount - me.total, clock)
    IN  /\ me.pc = "remint"
        /\ writer = 0
        /\ db' = mint_result.db
        /\ conn' = [ conn EXCEPT ![c] =
                       IF mint_result.status = "error"
                       THEN [ me EXCEPT !.pc = "done", !.status = "error" ]
                       ELSE [ me EXCEPT !.pc = "read", !.remints = @ + 1 ] ]
        /\ UNCHANGED <<clock, last, writer, se, nonces>>

\* lines 371-387: the exact pass fell short
AllocateClosed(c) ==
    LET me == conn[c]
        r == AllocateAfterClose(db, me.to_fi, me.amount, clock)
    IN  /\ me.pc = "closed"
        /\ writer = 0
        /\ db' = r.db
        /\ conn' = [ conn EXCEPT ![c].pc = "done", ![c].status = r.status ]
        /\ UNCHANGED <<clock, last, writer, se, nonces>>

\* lines 380-399: the UPDATEs of the selected serials, the ledger INSERT and
\* the commit
AllocateWrite(c) ==
    LET me == conn[c]
        r == AllocateCommit(db, me.to_fi, me.selected, TokensAmount(me.selected),
                            clock)
    IN  /\ me.pc = "write"
        /\ writer = 0
        /\ db' = r.db
        /\ conn' = [ conn EXCEPT ![c].pc = "done", ![c].status = "success",
                                 ![c].total = r.amount ]
        /\ UNCHANGED <<clock, last, writer, se, nonces>>

\* the wait for the write lock outlasts the connection's timeout
AllocateLockTimeout(c) ==
    /\ conn[c].pc \in {"remint", "closed", "write"}
    /\ writer \notin {0, c}
    /\ conn' = [ conn EXCEPT ![c].pc = "done", ![c].status = "exception" ]
    /\ UNCHANGED <<db, clock, last, writer, se, nonces>>

\* a transfer out of the vault names one serial of the table
VaultSerialInputs == { <<s>> : s \in 1..Len(db.tokens) }

NextAlloc ==
    \/ /\ clock < MaxClock
       /\ \E fi_id \in FiIds : Register(fi_id)
    \/ /\ clock < MaxClock
       /\ \E denomination \in DenominationInputs, count \in CountInputs :
             MintDuringTransfers(denomination, count)
    \/ /\ clock < MaxClock
       /\ \E c \in Connections, fi_id \in FiIds, amount \in AmountInputs :
             BeginAllocate(c, fi_id, amount)
    \/ /\ clock < MaxClock
       /\ \E c \in Connections, to_fi \in FiIds, token_serials \in VaultSerialInputs :
             BeginTransfer(c, "CB", to_fi, token_serials)
    \/ \E c \in Connections : AllocateRead(c)
    \/ \E c \in Connections : AllocateRemint(c)
    \/ \E c \in Connections : AllocateClosed(c)
    \/ \E c \in Connections : AllocateWrite(c)
    \/ \E c \in Connections : AllocateLockTimeout(c)
    \/ \E c \in Connections : SelectToken(c)
    \/ \E c \in Connections : UpdateToken(c)
    \/ \E c \in Connections : LockTimeout(c)
    \/ \E c \in Connections : CommitTransfer(c)

SpecAlloc == Init /\ [][NextAlloc]_vars

(***************************************************************************)
(* The offline lifecycle of the secure elements (specification SpecSE).    *)
(* fi_node/app.py routes these calls to fi_node/database.py, which is not  *)
(* part of the sources: loadToSE, setOnlineStatus, offlineTransaction,     *)
(* sync and consume follow sections 4.3 and 4.5 of the specification.  The *)
(* token selection, the transfer proof, the nullifiers table and the       *)
(* ledger transfer they use are the sources' own.                          *)
(***************************************************************************)
MaxNonces == 2
MaxQueue == 2

LoadInputs == {50, 150}
PayInputs == {50, 100}

\* token_utils.calculate_change, lines 46-53: largest first until covered
RECURSIVE GreedySelection(_, _, _, _)
GreedySelection(sorted_tokens, amount, i, total_spent) ==
    IF i > Len(sorted_tokens) \/ total_spent >= amount THEN <<>>
    ELSE <<sorted_tokens[i]>>
         \o GreedySelection(sorted_tokens, amount, i + 1,
                            total_spent + sorted_tokens[i].denomination)

\* the selection without the test of line 55
CalculateChangeUnchecked(amount, available_tokens) ==
    LET tokens_to_spend ==
            GreedySelection(OrderByDenominationDesc(available_tokens), amount, 1, 0)
    IN  [ tokens_to_spend |-> tokens_to_spend,
          change_tokens |-> make_change(TokensAmount(tokens_to_spend) - amount),
          remaining |-> 0 ]

calculate_change(amount, available_tokens) ==
    LET tokens_to_spend ==
            GreedySelection(OrderByDenominationDesc(available_tokens), amount, 1, 0)
        total_spent == TokensAmount(tokens_to_spend)
    IN  IF total_spent < amount
        THEN [ tokens_to_spend |-> <<>>, change_tokens |-> <<>>,
               remaining |-> amount - total_spent ]
        ELSE [ tokens_to_spend |-> tokens_to_spend,
               change_tokens |-> make_change(total_spent - amount),
               remaining |-> 0 ]

\* TokenBundle.select_for_payment: (selected_tokens, change_needed)
select_for_payment(tokens, amount) ==
    LET c == calculate_change(amount, tokens)
    IN  IF c.remaining > 0
        THEN [ selected |-> <<>>, change |-> c.remaining ]
        ELSE [ selected |-> c.tokens_to_spend,
               change |-> TokensAmount(c.tokens_to_spend) - amount ]

\* zkp.generate_nullifier: the SHA-256 of "NULLIFIER|serial|key|nonce", taken
\* as the string it hashes (no two strings collide); an owner's key is named
\* after the owner
NullifierWithoutSerial(serial_number, private_key, nonce) ==
    <<"NULLIFIER", private_key, nonce>>

generate_nullifier(serial_number, private_key, nonce) ==
    <<"NULLIFIER", serial_number, private_key, nonce>>

\* zkp.generate_token_transfer_proof: one nullifier per serial, one nonce
generate_token_transfer_proof(sender, recipient, token_serials, amount, nonce, timestamp) ==
    [ sender_public_key |-> sender, recipient_public_key |-> recipient,
      token_serials |-> token_serials, token_count |-> Len(token_serials),
      amount |-> amount, timestamp |-> timestamp, nonce |-> nonce,
      nullifiers |-> [ i \in 1..Len(token_serials) |->
                         generate_nullifier(token_serials[i], sender, nonce) ] ]

\* nullifier TEXT PRIMARY KEY: an INSERT of a value the table holds fails
PrimaryKeyAbsent(rows, value) == FALSE

PrimaryKeyTaken(rows, value) ==
    \E i \in 1..Len(rows) : rows[i].nullifier = value

\* section 4.3, consume: inserts if absent, AlreadySpent if present
consume(d, value, token_serial, tx_id, timestamp) ==
    IF PrimaryKeyTaken(d.nullifiers, value)
    THEN [ status |-> "AlreadySpent", db |-> d ]
    ELSE [ status |-> "Ok",
           db |-> [ d EXCEPT !.nullifiers =
                      Append(@, [ nullifier |-> value, token_serial |-> token_serial,
                                  spent_at |-> timestamp,
                                  transaction_id |-> tx_id ]) ] ]

\* the nullifiers of a receipt consumed one after the other, from number i
RECURSIVE ConsumeAll(_, _, _, _, _)
ConsumeAll(d, proof, tx_id, timestamp, i) ==
    IF i > Len(proof.nullifiers) THEN [ status |-> "Ok", db |-> d ]
    ELSE LET r == consume(d, proof.nullifiers[i], proof.token_serials[i],
                          tx_id, timestamp)
         IN  IF r.status = "AlreadySpent" THEN [ status |-> "AlreadySpent", db |-> d ]
             ELSE ConsumeAll(r.db, proof, tx_id, timestamp, i + 1)

\* a receipt that cannot be settled is answered as one already settled
SettleReceiptHidesConflict(d, receipt, timestamp) ==
    LET tx_id == <<"cross_fi_transfer", Len(d.ledger) + 1>>
        spent == ConsumeAll(d, receipt, tx_id, timestamp, 1)
        moved == transfer_tokens_between_fis(spent.db, receipt.sender_public_key,
                                             receipt.recipient_public_key,
                                             receipt.token_serials, timestamp)
    IN  IF spent.status = "Ok" /\ moved.status = "success"
        THEN [ outcome |-> "Settled", db |-> moved.db ]
        ELSE [ outcome |-> "AlreadySpent", db |-> d ]

\* section 4.5, sync, one receipt: its nullifiers are consumed and the real
\* transfer made as one unit of work; AlreadySpent and Conflict persist nothing
SettleReceipt(d, receipt, timestamp) ==
    LET tx_id == <<"cross_fi_transfer", Len(d.ledger) + 1>>
        spent == ConsumeAll(d, receipt, tx_id, timestamp, 1)
        moved == transfer_tokens_between_fis(spent.db, receipt.sender_public_key,
                                             receipt.recipient_public_key,
                                             receipt.token_serials, timestamp)
    IN  IF spent.status = "AlreadySpent" THEN [ outcome |-> "AlreadySpent", db |-> d ]
        ELSE IF moved.status = "success" THEN [ outcome |-> "Settled", db |-> moved.db ]
        ELSE [ outcome |-> "Conflict", db |-> d ]

\* sync replays every queued receipt
ReplayFirstOnly(queue) == IF queue = <<>> THEN 0 ELSE 1

ReplayUpTo(queue) == Len(queue)

\* section 4.5, sync: the queue replayed in order from receipt i; a settled
\* or already spent receipt leaves the queue, a conflicting one stays
RECURSIVE SyncLoop(_, _, _, _, _, _)
SyncLoop(d, queue, i, kept, outcomes, timestamp) ==
    IF i > ReplayUpTo(queue)
    THEN [ db |-> d, queue |-> kept \o SubSeq(queue, i, Len(queue)),
           outcomes |-> outcomes ]
    ELSE LET r == SettleReceipt(d, queue[i], timestamp)
         IN  SyncLoop(r.db, queue, i + 1,
                      IF r.outcome = "Conflict" THEN Append(kept, queue[i]) ELSE kept,
                      Append(outcomes, r.outcome), timestamp)

sync(d, queue, timestamp) == SyncLoop(d, queue, 1, <<>>, <<>>, timestamp)

\* the rows of the serials staged in a secure element, in staging order
StagedTokens(d, s) == [ i \in 1..Len(s.tokens) |-> d.tokens[s.tokens[i]] ]

\* tokens already in the store are staged a second time
LoadStagesAgain(d, s, owner, amount) ==
    LET Keep(t) == t.current_owner = owner /\ t.status = "active"
        selected == SelectExactTokens(SortedByDenomination(SelectSeq(d.tokens, Keep)),
                                      amount, 1, 0)
    IN  IF ~s.online THEN [ status |-> "Offline", se |-> s ]
        ELSE IF TokensAmount(selected) # amount
        THEN [ status |-> "InsufficientFunds", se |-> s ]
        ELSE [ status |-> "success",
               se |-> [ s EXCEPT !.tokens = @ \o SerialsOf(selected) ] ]

\* section 4.5, loadToSE: tokens of the owner's online balance worth the
\* amount, chosen as allocate's exact pass chooses, move into the store
loadToSE(d, s, owner, amount) ==
    LET Keep(t) == /\ t.current_owner = owner
                   /\ t.status = "active"
                   /\ t.serial_number \notin Range(s.tokens)
        selected == SelectExactTokens(SortedByDenomination(SelectSeq(d.tokens, Keep)),
                                      amount, 1, 0)
    IN  IF ~s.online THEN [ status |-> "Offline", se |-> s ]
        ELSE IF TokensAmount(selected) # amount
        THEN [ status |-> "InsufficientFunds", se |-> s ]
        ELSE [ status |-> "success",
               se |-> [ s EXCEPT !.tokens = @ \o SerialsOf(selected) ] ]

\* the receipt queued with the store left as it was
OfflineKeepsTokens(d, s, owner, to, amount, nonce, timestamp) ==
    LET pay == select_for_payment(StagedTokens(d, s), amount)
    IN  IF pay.selected = <<>> THEN [ status |-> "InsufficientFunds", se |-> s ]
        ELSE [ status |-> "success",
               se |-> [ s EXCEPT
                          !.queue = Append(@, generate_token_transfer_proof(
                                                 owner, to, SerialsOf(pay.selected),
                                                 amount, nonce, timestamp)) ] ]

\* section 4.5, offlineTransaction: selection in the store, a transfer
\* proof, the receipt queued and the store lowered; the ledger is not touched
offlineTransaction(d, s, owner, to, amount, nonce, timestamp) ==
    LET pay == select_for_payment(StagedTokens(d, s), amount)
        serials == SerialsOf(pay.selected)
        Stays(serial) == serial \notin Range(serials)
    IN  IF pay.selected = <<>> THEN [ status |-> "InsufficientFunds", se |-> s ]
        ELSE [ status |-> "success",
               se |-> [ s EXCEPT
                          !.tokens = SelectSeq(@, Stays),
                          !.queue = Append(@, generate_token_transfer_proof(
                                                 owner, to, serials, amount,
                                                 nonce, timestamp)) ] ]

\* the wallets hold tokens: minted, then moved out of the vault
FundedDb ==
    LET minted == mint_tokens(mint_tokens(EmptyDb, 100, 1, 1).db, 50, 2, 1).db
        first == transfer_tokens_between_fis(minted, "CB", "W-1", <<1, 2>>, 1).db
    IN  transfer_tokens_between_fis(first, "CB", "W-2", <<3>>, 1).db

InitSE ==
    /\ db = FundedDb
    /\ clock = 1
    /\ last = NoCall
    /\ conn = [ c \in Connections |-> IdleConn ]
    /\ writer = 0
    /\ se = [ owner \in SeOwners |-> EmptySE ]
    /\ nonces = 0

\* a call that stays in the secure element's store returns: last keeps
\* the calls made on the ledger, and such a call ends a run of them
ReturnLocal ==
    /\ last' = [ NoCall EXCEPT !.op = "local" ]
    /\ UNCHANGED <<conn, writer>>

LoadToSE(owner, amount) ==
    LET r == loadToSE(db, se[owner], owner, amount)
    IN  /\ se' = [ se EXCEPT ![owner] = r.se ]
        /\ ReturnLocal
        /\ UNCHANGED <<db, clock, nonces>>

SetOnlineDropsQueue(s, is_online) ==
    [ s EXCEPT !.online = is_online, !.queue = <<>> ]

\* section 4.5, setOnlineStatus: a pure state transition of the online flag
setOnlineStatus(s, is_online) ==
    [ s EXCEPT !.online = is_online ]

SetOnlineStatus(owner, is_online) ==
    /\ se' = [ se EXCEPT ![owner] = setOnlineStatus(se[owner], is_online) ]
    /\ ReturnLocal
    /\ UNCHANGED <<db, clock, nonces>>

OfflineTransaction(owner, to, amount) ==
    LET r == offlineTransaction(db, se[owner], owner, to, amount, nonces + 1, clock)
    IN  /\ nonces < MaxNonces
        /\ Len(se[owner].queue) < MaxQueue
        /\ se' = [ se EXCEPT ![owner] = r.se ]
        /\ nonces' = IF r.status = "success" THEN nonces + 1 ELSE nonces
        /\ ReturnLocal
        /\ UNCHANGED <<db, clock>>

\* a receipt is queued a second time (two devices sharing the element)
QueueAgain(owner, i) ==
    /\ i \in 1..Len(se[owner].queue)
    /\ Len(se[owner].queue) < MaxQueue
    /\ se' = [ se EXCEPT ![owner].queue = Append(@, @[i]) ]
    /\ ReturnLocal
    /\ UNCHANGED <<db, clock, nonces>>

\* progress counts the syncs the owner has made in a row
Sync(owner) ==
    LET r == sync(db, se[owner].queue, clock)
    IN  /\ db' = r.db
        /\ se' = [ se EXCEPT ![owner].queue = r.queue ]
        /\ clock' = clock + 1
        /\ last' = [ op |-> "sync", status |-> "success", tokens |-> r.outcomes,
                     amount |-> 0, by |-> owner,
                     progress |-> IF last.op = "sync" /\ last.by = owner
                                  THEN last.progress + 1 ELSE 1 ]
        /\ UNCHANGED <<conn, writer, nonces>>

NextSE ==
    \/ \E owner \in SeOwners, amount \in LoadInputs : LoadToSE(owner, amount)
    \/ \E owner \in SeOwners, is_online \in BOOLEAN : SetOnlineStatus(owner, is_online)
    \/ \E owner \in SeOwners, to \in Wallets, amount \in PayInputs :
          OfflineTransaction(owner, to, amount)
    \/ \E owner \in SeOwners, i \in 1..MaxQueue : QueueAgain(owner, i)
    \/ /\ clock < MaxClock
       /\ \E owner \in SeOwners : Sync(owner)
    \/ /\ clock < MaxClock
       /\ \E from_fi \in SeOwners, to_fi \in {"CB"}, token_serials \in {<<1>>, <<2>>} :
             Transfer(from_fi, to_fi, token_serials)

SpecSE == InitSE /\ [][NextSE]_vars

(***************************************************************************)
(* Syncs that run concurrently (specification SpecSync).  Section 4.6 of   *)
(* the specification makes the replay of one receipt one unit of work: the *)
(* nullifier INSERTs open the transaction and take the write lock of the   *)
(* database, the transfer runs inside it, and the commit or the rollback   *)
(* frees the lock.  Duplicates are told apart by the PRIMARY KEY of the    *)
(* nullifiers table; the devices share no lock of their own.               *)
(***************************************************************************)
SyncDevices == {"phone", "watch"}

\* receipts queued earlier: two payments of W-1 and one of W-2
SyncReceipts ==
    << generate_token_transfer_proof("W-1", "W-2", <<1>>, 100, 1, 1),
       generate_token_transfer_proof("W-1", "W-2", <<2>>, 50, 2, 1),
       generate_token_transfer_proof("W-2", "W-1", <<3>>, 50, 3, 1) >>

\* the pending queues the devices start with
SyncQueues ==
    { <<>>, <<SyncReceipts[1]>>, <<SyncReceipts[3]>>,
      <<SyncReceipts[1], SyncReceipts[2]>>, <<SyncReceipts[2], SyncReceipts[1]>>,
      <<SyncReceipts[1], SyncReceipts[1]>>, <<SyncReceipts[3], SyncReceipts[1]>> }

\* a connection no sync has been started on
IdleSync ==
    [ pc |-> "idle", device |-> "", queue |-> <<>>, i |-> 0, kept |-> <<>>,
      outcomes |-> <<>>, working |-> EmptyDb, timestamp |-> 0,
      status |-> "none", during |-> {} ]

InitSync ==
    /\ db = FundedDb
    /\ clock = 1
    /\ last = NoCall
    /\ conn = [ c \in Connections |-> IdleSync ]
    /\ writer = 0
    /\ se \in [ SyncDevices -> { [ EmptySE EXCEPT !.queue = queue ] :
                                   queue \in SyncQueues } ]
    /\ nonces = 0

\* the write lock is free for connection c, or c holds it
LockIgnored(c) == TRUE

LockFree(c) == writer \in {0, c}

\* sync(seOwner) starts: the device's pending queue is read
BeginSync(c, device) ==
    /\ conn[c].pc = "idle"
    /\ conn' = [ conn EXCEPT ![c] =
                   [ IdleSync EXCEPT !.pc = "consume", !.device = device,
                                     !.queue = se[device].queue, !.i = 1,
                                     !.timestamp = clock, !.status = "running",
                                     !.during = { o \in Connections \ {c} : Running(o) } ] ]
    /\ clock' = clock + 1
    /\ UNCHANGED <<db, last, writer, se, nonces>>

\* the receipt's turn: its nullifiers are inserted, which takes the write
\* lock; a value the table holds ends the unit of work as AlreadySpent
SyncConsume(c) ==
    LET me == conn[c]
        receipt == me.queue[me.i]
        tx_id == <<"cross_fi_transfer", Len(db.ledger) + 1>>
        spent == ConsumeAll(db, receipt, tx_id, me.timestamp, 1)
    IN  /\ me.pc = "consume"
        /\ me.i <= Len(me.queue)
        /\ LockFree(c)
        /\ IF spent.status = "AlreadySpent"
           THEN /\ conn' = [ conn EXCEPT ![c].outcomes = Append(@, "AlreadySpent"),
                                         ![c].i = @ + 1 ]
                /\ writer' = IF writer = c THEN 0 ELSE writer
           ELSE /\ conn' = [ conn EXCEPT ![c].working = spent.db,
                                         ![c].pc = "transfer" ]
                /\ writer' = c
        /\ UNCHANGED <<db, clock, last, se, nonces>>

\* the real transfer inside the unit of work, then the commit; a transfer
\* that fails rolls the nullifiers back and keeps the receipt as a conflict
SyncTransfer(c) ==
    LET me == conn[c]
        receipt == me.queue[me.i]
        moved == transfer_tokens_between_fis(me.working, receipt.sender_public_key,
                                             receipt.recipient_public_key,
                                             receipt.token_serials, me.timestamp)
    IN  /\ me.pc = "transfer"
        /\ IF moved.status = "success"
           THEN /\ db' = moved.db
                /\ conn' = [ conn EXCEPT ![c].outcomes = Append(@, "Settled"),
                                         ![c].i = @ + 1, ![c].pc = "consume",
                                         ![c].working = EmptyDb ]
           ELSE /\ db' = db
                /\ conn' = [ conn EXCEPT ![c].outcomes = Append(@, "Conflict"),
                                         ![c].kept = Append(@, receipt),
                                         ![c].i = @ + 1, ![c].pc = "consume",
                                         ![c].working = EmptyDb ]
        /\ writer' = IF writer = c THEN 0 ELSE writer
        /\ UNCHANGED <<clock, last, se, nonces>>

\* the wait for the write lock outlasts the timeout: the sync ends with an
\* exception and the receipts it has not replayed stay queued
SyncLockTimeout(c) ==
    LET me == conn[c]
    IN  /\ me.pc = "consume"
        /\ me.i <= Len(me.queue)
        /\ ~LockFree(c)
        /\ conn' = [ conn EXCEPT ![c].pc = "done", ![c].status = "exception" ]
        /\ se' = [ se EXCEPT ![me.device].queue =
                      me.kept \o SubSeq(me.queue, me.i, Len(me.queue)) ]
        /\ UNCHANGED <<db, clock, last, writer, nonces>>

\* every receipt has had its turn: the conflicts are what stays queued
FinishSync(c) ==
    LET me == conn[c]
    IN  /\ me.pc = "consume"
        /\ me.i > Len(me.queue)
        /\ conn' = [ conn EXCEPT ![c].pc = "done", ![c].status = "success" ]
        /\ se' = [ se EXCEPT ![me.device].queue = me.kept ]
        /\ UNCHANGED <<db, clock, last, writer, nonces>>

NextSync ==
    \/ /\ clock < MaxClock
       /\ \E c \in Connections, device \in SyncDevices : BeginSync(c, device)
    \/ \E c \in Connections : SyncConsume(c)
    \/ \E c \in Connections : SyncTransfer(c)
    \/ \E c \in Connections : SyncLockTimeout(c)
    \/ \E c \in Connections : FinishSync(c)

SpecSync == InitSync /\ [][NextSync]_vars

(***************************************************************************)
(* shared/token_utils.py called on its own (specification SpecChange): an  *)
(* amount is requested, then make_change answers it.                       *)
(***************************************************************************)
MaxAmount == 2500

ChangeInputs == -2..MaxAmount

InitChange ==
    /\ db = EmptyDb
    /\ clock = 1
    /\ last \in { [ NoCall EXCEPT !.op = "request", !.amount = amount ] :
                    amount \in ChangeInputs }
    /\ conn = [ c \in Connections |-> IdleConn ]
    /\ writer = 0
    /\ se = [ owner \in SeOwners |-> EmptySE ]
    /\ nonces = 0

MakeChange ==
    /\ last.op = "request"
    /\ last' = [ last EXCEPT !.op = "make_change", !.status = "success",
                             !.tokens = make_change(last.amount) ]
    /\ UNCHANGED <<db, clock, conn, writer, se, nonces>>

NextChange == MakeChange

SpecChange == InitChange /\ [][NextChange]_vars

(***************************************************************************)
(* break_token called on its own (specification SpecBreak): a token and a  *)
(* target amount are given, then break_token answers them.                 *)
(***************************************************************************)
MaxTarget == 101

TargetInputs == -3..MaxTarget

BreakDenominations == {1, 5, 50, 100}

\* lines 93-113; the answer is the pair (recipient's, sender's denominations)
break_token(token, target_amount) ==
    LET denomination == token.denomination
    IN  IF target_amount > denomination
        THEN [ recipient |-> <<>>, sender |-> <<denomination>> ]
        ELSE IF target_amount = denomination
        THEN [ recipient |-> <<denomination>>, sender |-> <<>> ]
        ELSE [ recipient |-> make_change(target_amount),
               sender |-> make_change(denomination - target_amount) ]

\* last.tokens is the token given, last.amount the target amount
InitBreak ==
    /\ db = EmptyDb
    /\ clock = 1
    /\ last \in { [ NoCall EXCEPT !.op = "request", !.amount = target_amount,
                                  !.tokens = <<NewToken(1, denomination, 1, <<1, 0>>)>> ] :
                    target_amount \in TargetInputs,
                    denomination \in BreakDenominations }
    /\ conn = [ c \in Connections |-> IdleConn ]
    /\ writer = 0
    /\ se = [ owner \in SeOwners |-> EmptySE ]
    /\ nonces = 0

\* last.by is what break_token returned
BreakToken ==
    /\ last.op = "request"
    /\ last' = [ last EXCEPT !.op = "break_token", !.status = "success",
                             !.by = break_token(last.tokens[1], last.amount) ]
    /\ UNCHANGED <<db, clock, conn, writer, se, nonces>>

NextBreak == BreakToken

SpecBreak == InitBreak /\ [][NextBreak]_vars

(***************************************************************************)
(* TokenBundle.select_for_payment called on its own (specification         *)
(* SpecSelect): a bundle of tokens and an amount, then the selection.      *)
(***************************************************************************)
MaxBundle == 3

BundleDenominations == {10, 20, 50}

PaymentInputs == {-5, 0, 1, 10, 25, 30, 60, 80, 81, 150, 151}

\* TokenBundle(tokens): rows in any order, one serial number each
BundleInputs ==
    UNION { { InsertTokens(<<>>, denoms, 1, 1) :
                denoms \in [ 1..n -> BundleDenominations ] } : n \in 0..MaxBundle }

InitSelect ==
    /\ db \in { [ EmptyDb EXCEPT !.tokens = tokens ] : tokens \in BundleInputs }
    /\ clock = 1
    /\ last \in { [ NoCall EXCEPT !.op = "request", !.amount = amount ] :
                    amount \in PaymentInputs }
    /\ conn = [ c \in Connections |-> IdleConn ]
    /\ writer = 0
    /\ se = [ owner \in SeOwners |-> EmptySE ]
    /\ nonces = 0

\* bundle.select_for_payment(amount): last.progress is change_needed
SelectForPayment ==
    /\ last.op = "request"
    /\ LET pay == select_for_payment(db.tokens, last.amount)
       IN  last' = [ last EXCEPT !.op = "select_for_payment",
                                !.status = "success",
                                !.tokens = pay.selected,
                                !.progress = pay.change ]
    /\ UNCHANGED <<db, clock, conn, writer, se, nonces>>

NextSelect == SelectForPayment

SpecSelect == InitSelect /\ [][NextSelect]_vars

(***************************************************************************)
(* Transfers over a database file that already holds rows of every status  *)
(* the tokens table declares (specification SpecStatus).  init_db creates  *)
(* the tables only if they do not exist, so the rows of an earlier run are  *)
(* the program's starting state.                                           *)
(***************************************************************************)
MaxRows == 2

\* status TEXT DEFAULT 'active',  -- active, spent, destroyed
StatusInputs == {"active", "spent", "destroyed"}

\* the rows of one minted batch, each with a status and an owner
StoredRows(tokens) ==
    { [ i \in 1..Len(tokens) |->
          [ tokens[i] EXCEPT !.status = status[i],
                             !.current_owner = owner[i],
                             !.owner_type = IF owner[i] = "CB" THEN "cb" ELSE "fi" ] ] :
        status \in [ 1..Len(tokens) -> StatusInputs ],
        owner \in [ 1..Len(tokens) -> Entities ] }

StoredDb ==
    LET minted == mint_tokens(EmptyDb, 100, MaxRows, 1).db
    IN  [ minted EXCEPT !.financial_institutions = FiIds ]

InitStatus ==
    /\ db \in { [ StoredDb EXCEPT !.tokens = tokens ] :
                  tokens \in StoredRows(StoredDb.tokens) }
    /\ clock = 2
    /\ last = NoCall
    /\ conn = [ c \in Connections |-> IdleConn ]
    /\ writer = 0
    /\ se = [ owner \in SeOwners |-> EmptySE ]
    /\ nonces = 0

NextStatus ==
    /\ clock < MaxClock
    /\ \E from_fi \in Entities, to_fi \in Entities, token_serials \in SerialInputs :
          Transfer(from_fi, to_fi, token_serials)

SpecStatus == InitStatus /\ [][NextStatus]_vars

(***************************************************************************)
(* Allocations out of a vault that holds tokens of several denominations   *)
(* (specification SpecVault): the vault is what earlier mints left in it.  *)
(***************************************************************************)
MaxVault == 3

VaultDenominations == {20, 50, 100}

VaultAmounts == {50, 70, 150}

\* mint_tokens(denomination, 1) for every denomination of the list
RECURSIVE MintEach(_, _)
MintEach(d, denoms) ==
    IF denoms = <<>> THEN d
    ELSE MintEach(mint_tokens(d, Head(denoms), 1, 1).db, Tail(denoms))

VaultDbs ==
    { MintEach([ EmptyDb EXCEPT !.financial_institutions = FiIds ], denoms) :
        denoms \in UNION { [ 1..n -> VaultDenominations ] : n \in 0..MaxVault } }

InitVault ==
    /\ db \in VaultDbs
    /\ clock = 2
    /\ last = NoCall
    /\ conn = [ c \in Connections |-> IdleConn ]
    /\ writer = 0
    /\ se = [ owner \in SeOwners |-> EmptySE ]
    /\ nonces = 0

NextVault ==
    /\ clock < MaxClock
    /\ \E fi_id \in FiIds, amount \in VaultAmounts : Allocate(fi_id, amount)

SpecVault == InitVault /\ [][NextVault]_vars

(***************************************************************************)
(* Allocations that run concurrently out of a vault that holds tokens      *)
(* (specification SpecRace): the steps of SpecAlloc, each call on its own  *)
(* connection.  The vault is read outside a transaction, and the UPDATEs   *)
(* name the serial only (WHERE serial_number = ?).                         *)
(***************************************************************************)
NextRace ==
    \/ /\ clock < MaxClock
       /\ \E c \in Connections, fi_id \in FiIds, amount \in VaultAmounts :
             BeginAllocate(c, fi_id, amount)
    \/ \E c \in Connections : AllocateRead(c)
    \/ \E c \in Connections : AllocateRemint(c)
    \/ \E c \in Connections : AllocateClosed(c)
    \/ \E c \in Connections : AllocateWrite(c)

SpecRace == InitVault /\ [][NextRace]_vars

(***************************************************************************)
(* Transfers between the institutions' own tokens that run concurrently    *)
(* (specification SpecPar): the steps of SpecConc, from a database where   *)
(* FI-A holds serials 1 and 2 and FI-B holds serial 3.                     *)
(***************************************************************************)
HeldDb ==
    LET minted == mint_tokens(mint_tokens(EmptyDb, 100, 1, 1).db, 50, 2, 1).db
        first == transfer_tokens_between_fis(minted, "CB", "FI-A", <<1, 2>>, 1).db
    IN  transfer_tokens_between_fis(first, "CB", "FI-B", <<3>>, 1).db

InitPar ==
    /\ db = HeldDb
    /\ clock = 1
    /\ last = NoCall
    /\ conn = [ c \in Connections |-> IdleConn ]
    /\ writer = 0
    /\ se = [ owner \in SeOwners |-> EmptySE ]
    /\ nonces = 0

NextPar ==
    \/ /\ clock < MaxClock
       /\ \E c \in Connections, from_fi \in FiIds, to_fi \in Entities,
             token_serials \in SerialInputs :
             BeginTransfer(c, from_fi, to_fi, token_serials)
    \/ \E c \in Connections : SelectToken(c)
    \/ \E c \in Connections : UpdateToken(c)
    \/ \E c \in Connections : LockTimeout(c)
    \/ \E c \in Connections : CommitTransfer(c)

SpecPar == InitPar /\ [][NextPar]_vars

(***************************************************************************)
(* shared/zkp.py called on its own (specification SpecZkp): proofs are     *)
(* generated, time passes, a proof is altered on its way, and proofs are   *)
(* verified.  The clock counts milliseconds.  A SHA-256 digest is taken as *)
(* the text it digests and a prefix of a digest as that digest, so equal   *)
(* texts give equal digests and no two texts collide.  A Python value that *)
(* is formatted into a text is a pair <<type, text>>.                      *)
(***************************************************************************)
\* 5 * 60 * 1000 in verify_ownership_proof and verify_compliance_proof
FreshnessWindow == 5 * 60 * 1000

\* the ages a proof is looked at again at, around the window's end
AgeInputs == {1, FreshnessWindow - 1, FreshnessWindow, FreshnessWindow + 1}

PrivateKeys == {"sk_A"}

PublicKeys == {"pk_A", "pk_B"}

\* token_serial = None, or a serial
ProofSerials == {"", "100-7941912985FAC832"}

Sha256(data) == <<"sha256", data>>

\* hexdigest()[:n]
Prefix(digest, n) == <<n, digest>>

\* "|".join of the parts, with "|token_serial" when there is one
WithSerial(parts, token_serial) ==
    IF token_serial # "" THEN Append(parts, token_serial) ELSE parts

\* the check that compares the public keys is left out
VerifyOwnershipAnyKey(proof, expected_public_key, now) ==
    /\ proof.type = "ownership"
    /\ now - proof.timestamp <= FreshnessWindow
    /\ proof.verification_hash
          = Prefix(Sha256(WithSerial(<<proof.public_key, proof.challenge,
                                       proof.timestamp>>, proof.token_serial)), 16)

generate_ownership_proof(private_key, public_key, token_serial, challenge, nonce, now) ==
    [ type |-> "ownership", public_key |-> public_key,
      token_serial |-> token_serial, challenge |-> challenge,
      timestamp |-> now, nonce |-> nonce,
      proof |-> Sha256(WithSerial(<<private_key, challenge, now, nonce>>, token_serial)),
      verification_hash |->
          Prefix(Sha256(WithSerial(<<public_key, challenge, now>>, token_serial)), 16) ]

verify_ownership_proof(proof, expected_public_key, now) ==
    /\ proof.type = "ownership"
    /\ proof.public_key = expected_public_key
    /\ ~(now - proof.timestamp > FreshnessWindow)
    /\ proof.verification_hash
          = Prefix(Sha256(WithSerial(<<proof.public_key, proof.challenge,
                                       proof.timestamp>>, proof.token_serial)), 16)

COMPLIANCE_LIMITS ==
    [ SINGLE_TX_LIMIT |-> 50000, DAILY_LIMIT |-> 200000, MONTHLY_LIMIT |-> 1000000,
      OFFLINE_LIMIT |-> 10000, IOT_DEVICE_LIMIT |-> 5000 ]

\* the Python values True and False, and a str
PyBool(b) == <<"bool", IF b THEN "True" ELSE "False">>

PyStr(text) == <<"str", text>>

\* f"{value}": the text of the value
Format(value) == value[2]

\* the IoT cap is checked against the offline limit
ChecksWithOfflineCapForIot(amount, daily_spent, monthly_spent, is_offline, is_iot) ==
    [ single_tx_valid |-> amount <= COMPLIANCE_LIMITS.SINGLE_TX_LIMIT,
      daily_valid |-> daily_spent + amount <= COMPLIANCE_LIMITS.DAILY_LIMIT,
      monthly_valid |-> monthly_spent + amount <= COMPLIANCE_LIMITS.MONTHLY_LIMIT,
      offline_valid |-> ~is_offline \/ amount <= COMPLIANCE_LIMITS.OFFLINE_LIMIT,
      iot_valid |-> ~is_iot \/ amount <= COMPLIANCE_LIMITS.OFFLINE_LIMIT ]

\* lines 168-174: the five checks
ComplianceChecks(amount, daily_spent, monthly_spent, is_offline, is_iot) ==
    [ single_tx_valid |-> amount <= COMPLIANCE_LIMITS.SINGLE_TX_LIMIT,
      daily_valid |-> daily_spent + amount <= COMPLIANCE_LIMITS.DAILY_LIMIT,
      monthly_valid |-> monthly_spent + amount <= COMPLIANCE_LIMITS.MONTHLY_LIMIT,
      offline_valid |-> ~is_offline \/ amount <= COMPLIANCE_LIMITS.OFFLINE_LIMIT,
      iot_valid |-> ~is_iot \/ amount <= COMPLIANCE_LIMITS.IOT_DEVICE_LIMIT ]

\* all(checks.values())
AllChecks(checks) ==
    /\ checks.single_tx_valid
    /\ checks.daily_valid
    /\ checks.monthly_valid
    /\ checks.offline_valid
    /\ checks.iot_valid

generate_compliance_proof(amount, daily_spent, monthly_spent, is_offline, is_iot, nonce, now) ==
    LET checks == ComplianceChecks(amount, daily_spent, monthly_spent,
                                   is_offline, is_iot)
        is_compliant == PyBool(AllChecks(checks))
        commitment == Sha256(<<"COMPLIANCE", checks, nonce>>)
    IN  [ type |-> "compliance_proof", timestamp |-> now, nonce |-> nonce,
          is_compliant |-> is_compliant, checks |-> checks,
          commitment |-> commitment,
          verification_tag |->
              Prefix(Sha256(<<commitment, now, Format(is_compliant)>>), 24) ]

\* lines 196-218; 'error' is "" when the proof is valid
verify_compliance_proof(proof, now) ==
    IF proof.type # "compliance_proof"
    THEN [ valid |-> FALSE, error |-> "Invalid proof type",
           is_compliant |-> PyBool(FALSE), checks |-> <<>> ]
    ELSE IF now - proof.timestamp > FreshnessWindow
    THEN [ valid |-> FALSE, error |-> "Proof expired",
           is_compliant |-> PyBool(FALSE), checks |-> <<>> ]
    ELSE IF proof.verification_tag
              # Prefix(Sha256(<<proof.commitment, proof.timestamp,
                               Format(proof.is_compliant)>>), 24)
    THEN [ valid |-> FALSE, error |-> "Invalid verification tag",
           is_compliant |-> PyBool(FALSE), checks |-> <<>> ]
    ELSE [ valid |-> TRUE, error |-> "", is_compliant |-> proof.is_compliant,
           checks |-> proof.checks ]

\* what a proof's fields are replaced with on its way to the verifier: the
\* proof is a JSON object, whose is_compliant can be a boolean or a string
FlagInputs == { PyBool(TRUE), PyBool(FALSE), PyStr("True"), PyStr("False") }

CommitmentInputs == { Sha256(<<"COMPLIANCE", "forged">>) }

TimestampShifts == {1, FreshnessWindow}

\* the checks of a transfer within every limit, and of one above the
\* single-transaction limit
ChecksInputs ==
    { ComplianceChecks(5000, 0, 0, FALSE, FALSE),
      ComplianceChecks(50001, 0, 0, FALSE, FALSE) }

NonceInputs == {0}

\* the arguments compliance proofs are asked with, around the limits
ComplianceAmounts == {5000, 5001, 10000, 10001, 50000, 50001}

DailySpentInputs == {0, 150000, 195000}

MonthlySpentInputs == {0, 995000}

\* nothing generated yet
NoProof ==
    [ op |-> "none", kind |-> "none", args |-> <<>>, proof |-> <<>>,
      issued |-> <<>>, result |-> <<>>, expected |-> "", at |-> 0 ]

InitZkp ==
    /\ db = EmptyDb
    /\ clock = 1
    /\ last = NoProof
    /\ conn = [ c \in Connections |-> IdleConn ]
    /\ writer = 0
    /\ se = [ owner \in SeOwners |-> EmptySE ]
    /\ nonces = 0

\* the latest instant (ms) a proof is generated at; what the verifiers look
\* at is the age of the proof, which TimePasses makes what it likes
MaxIssueAt == 2

\* a proof comes back from its generator: last.issued keeps it as generated
Issue(op, kind, args, proof) ==
    /\ nonces < MaxNonces
    /\ clock <= MaxIssueAt
    /\ nonces' = nonces + 1
    /\ last' = [ NoProof EXCEPT !.op = op, !.kind = kind, !.args = args,
                                !.proof = proof, !.issued = proof, !.at = clock ]
    /\ UNCHANGED <<db, clock, conn, writer, se>>

\* secrets.token_hex(16) is the number of the call; the challenge is given
GenerateOwnershipProof(private_key, public_key, token_serial) ==
    Issue("generate_ownership_proof", "ownership",
          <<private_key, public_key, token_serial>>,
          generate_ownership_proof(private_key, public_key, token_serial,
                                   "challenge", nonces + 1, clock))

GenerateComplianceProof(amount, daily_spent, monthly_spent, is_offline, is_iot) ==
    Issue("generate_compliance_proof", "compliance_proof",
          <<amount, daily_spent, monthly_spent, is_offline, is_iot>>,
          generate_compliance_proof(amount, daily_spent, monthly_spent,
                                    is_offline, is_iot, nonces + 1, clock))

\* how far (ms) the clock of the host that generates a proof is ahead of
\* the clock of the host that verifies it
SkewInputs == {1, FreshnessWindow}

\* time.time() of lines 46 and 165 is the generating host's
GenerateOwnershipProofAhead(skew) ==
    Issue("generate_ownership_proof", "ownership", <<"sk_A", "pk_A", "">>,
          generate_ownership_proof("sk_A", "pk_A", "", "challenge", nonces + 1,
                                   clock + skew))

GenerateComplianceProofAhead(skew) ==
    Issue("generate_compliance_proof", "compliance_proof",
          <<5000, 0, 0, FALSE, FALSE>>,
          generate_compliance_proof(5000, 0, 0, FALSE, FALSE, nonces + 1,
                                    clock + skew))

\* the lists of serials transfer proofs are asked for: none, one, several,
\* the same ones in another order, one serial twice
TransferSerialLists ==
    { <<>>, <<"100-A1">>, <<"100-A1", "50-B2">>, <<"50-B2", "100-A1">>,
      <<"100-A1", "50-B2", "20-C3">>, <<"100-A1", "100-A1">> }

\* the sender's private and public key are both named after the sender
GenerateTransferProof(sender, recipient, token_serials, amount) ==
    Issue("generate_token_transfer_proof", "token_transfer",
          <<sender, recipient, token_serials, amount>>,
          generate_token_transfer_proof(sender, recipient, token_serials,
                                        amount, nonces + 1, clock))

\* time.time() moves on, to the time the proof generated last has the age
TimePasses(age) ==
    /\ last.kind # "none"
    /\ last.issued.timestamp + age > clock
    /\ clock' = last.issued.timestamp + age
    /\ UNCHANGED <<db, last, conn, writer, se, nonces>>

VerifyOwnershipProof(expected_public_key) ==
    /\ last.kind = "ownership"
    /\ last' = [ last EXCEPT
                   !.op = "verify_ownership_proof",
                   !.result = verify_ownership_proof(last.proof,
                                                     expected_public_key, clock),
                   !.expected = expected_public_key, !.at = clock ]
    /\ UNCHANGED <<db, clock, conn, writer, se, nonces>>

VerifyComplianceProof ==
    /\ last.kind = "compliance_proof"
    /\ last' = [ last EXCEPT
                   !.op = "verify_compliance_proof",
                   !.result = verify_compliance_proof(last.proof, clock),
                   !.at = clock ]
    /\ UNCHANGED <<db, clock, conn, writer, se, nonces>>

\* a field of the proof as generated is replaced before it is verified
Alter(field, value) ==
    /\ last.kind = "compliance_proof"
    /\ last.proof = last.issued
    /\ last' = [ last EXCEPT
                   !.op = "alter",
                   !.proof = CASE field = "is_compliant"
                                    -> [ last.issued EXCEPT !.is_compliant = value ]
                               [] field = "commitment"
                                    -> [ last.issued EXCEPT !.commitment = value ]
                               [] field = "timestamp"
                                    -> [ last.issued EXCEPT !.timestamp = @ + value ]
                               [] field = "checks"
                                    -> [ last.issued EXCEPT !.checks = value ]
                               [] field = "nonce"
                                    -> [ last.issued EXCEPT !.nonce = value ] ]
    /\ last'.proof # last.issued
    /\ UNCHANGED <<db, clock, conn, writer, se, nonces>>

NextZkp ==
    \/ \E private_key \in PrivateKeys, public_key \in PublicKeys,
          token_serial \in ProofSerials :
          GenerateOwnershipProof(private_key, public_key, token_serial)
    \/ \E amount \in ComplianceAmounts, daily_spent \in DailySpentInputs,
          monthly_spent \in MonthlySpentInputs, is_offline \in BOOLEAN,
          is_iot \in BOOLEAN :
          GenerateComplianceProof(amount, daily_spent, monthly_spent,
                                  is_offline, is_iot)
    \/ \E age \in AgeInputs : TimePasses(age)
    \/ \E expected_public_key \in PublicKeys :
          VerifyOwnershipProof(expected_public_key)
    \/ \E token_serials \in TransferSerialLists :
          GenerateTransferProof("pk_A", "pk_B", token_serials, 100)
    \/ VerifyComplianceProof
    \/ \E value \in FlagInputs : Alter("is_compliant", value)
    \/ \E value \in CommitmentInputs : Alter("commitment", value)
    \/ \E value \in TimestampShifts : Alter("timestamp", value)
    \/ \E value \in ChecksInputs : Alter("checks", value)
    \/ \E value \in NonceInputs : Alter("nonce", value)
    \/ \E skew \in SkewInputs : GenerateOwnershipProofAhead(skew)
    \/ \E skew \in SkewInputs : GenerateComplianceProofAhead(skew)

SpecZkp == InitZkp /\ [][NextZkp]_vars

(***************************************************************************)
(* Properties of the calls made one at a time (specification Spec).        *)
(***************************************************************************)
ActiveTotal(d) ==
    LET Active(t) == t.status = "active"
    IN  TokensAmount(SelectSeq(d.tokens, Active))

DestroyedTotal(d) ==
    LET Destroyed(t) == t.status = "destroyed"
    IN  TokensAmount(SelectSeq(d.tokens, Destroyed))

RECURSIVE SumAmounts(_)
SumAmounts(entries) ==
    IF entries = <<>> THEN 0
    ELSE Head(entries).total_amount + SumAmounts(Tail(entries))

EntriesOfType(d, type) ==
    LET OfType(e) == e.transaction_type = type
    IN  SelectSeq(d.ledger, OfType)

MintedTotal(d) == SumAmounts(EntriesOfType(d, "mint"))

\* C1: money conservation.  Between any two calls (mint, mintMixed,
\* mintExact, register, allocate, transfer, failed or not) the denominations
\* of the active tokens sum to the amounts of the ledger's mint entries minus
\* the denominations of the destroyed tokens.
C1_Conservation == ActiveTotal(db) = MintedTotal(db) - DestroyedTotal(db)

\* reached: an allocation has left minted tokens both in the vault and with
\* an institution
C1_Witness ==
    /\ last.op = "allocate"
    /\ last.status = "success"
    /\ MintedTotal(db) > 0
    /\ Balance(db, "CB") > 0
    /\ \E fi_id \in FiIds : Balance(db, fi_id) > 0

\* C2: in every reachable state get_money_supply reports is_balanced = true.
\* The code breaks it: transfer_tokens_between_fis leaves owner_type as it
\* was, so a token moved out of the vault is counted in no tier and a token
\* moved into the vault is counted twice.
C2_IsBalanced == get_money_supply(db).is_balanced

Distinct(token_serials) ==
    \A i, j \in 1..Len(token_serials) :
        token_serials[i] = token_serials[j] => i = j

AllOwned(tokens, token_serials, owner) ==
    \A i \in 1..Len(token_serials) : OwnedRows(tokens, token_serials[i], owner) # {}

\* the sum of the denominations of the tokens a serial list names, each
\* list position counted
ListedAmount(tokens, token_serials) ==
    SumSeq([ i \in 1..Len(token_serials) |->
               tokens[CHOOSE r \in 1..Len(tokens) :
                        tokens[r].serial_number = token_serials[i]].denomination ])

\* C3: atomic transfer.  In every reachable state, a transfer in which some
\* serial is unknown or not owned by the sender returns an error, leaves
\* every token row as it was (owner and last_transfer_at of the serials
\* listed before the bad one included) and appends no ledger entry.
C3_AtomicTransfer ==
    \A from_fi \in Entities, to_fi \in Entities, token_serials \in SerialInputs :
        ~AllOwned(db.tokens, token_serials, from_fi)
        => LET r == transfer_tokens_between_fis(db, from_fi, to_fi, token_serials, clock)
           IN  /\ r.status = "error"
               /\ r.db.tokens = db.tokens
               /\ r.db.ledger = db.ledger

\* reached: a transfer failed after the loop had already updated a token
C3_Witness ==
    /\ last.op = "transfer"
    /\ last.status = "error"
    /\ last.progress >= 1

\* what C7 promises of the result r of a transfer of token_serials to to_fi
\* at time timestamp, from the database d
TransferMovedAll(d, r, to_fi, token_serials, timestamp) ==
    LET sum == ListedAmount(d.tokens, token_serials)
    IN  /\ r.status = "success"
        /\ \A i \in 1..Len(r.db.tokens) :
              r.db.tokens[i].serial_number \in Range(token_serials)
              => /\ r.db.tokens[i].current_owner = to_fi
                 /\ r.db.tokens[i].last_transfer_at = timestamp
        /\ Len(r.db.ledger) = Len(d.ledger) + 1
        /\ SubSeq(r.db.ledger, 1, Len(d.ledger)) = d.ledger
        /\ r.db.ledger[Len(r.db.ledger)].total_amount = sum
        /\ r.amount = sum

TransferMovedBalance(d, r, from_fi, to_fi, token_serials) ==
    LET sum == ListedAmount(d.tokens, token_serials)
    IN  /\ Balance(r.db, from_fi) = Balance(d, from_fi) - sum
        /\ Balance(r.db, to_fi) = Balance(d, to_fi) + sum

\* C7 as stated: in every reachable state, a transfer whose serials are all
\* owned by the sender succeeds, every listed token ends with the recipient
\* with last_transfer_at updated, the sender's balance falls and the
\* recipient's rises by the sum, and one ledger entry of that amount is
\* appended.
C7_Original ==
    \A from_fi \in Entities, to_fi \in Entities, token_serials \in SerialInputs :
        AllOwned(db.tokens, token_serials, from_fi)
        => LET r == transfer_tokens_between_fis(db, from_fi, to_fi, token_serials, clock)
           IN  /\ TransferMovedAll(db, r, to_fi, token_serials, clock)
               /\ TransferMovedBalance(db, r, from_fi, to_fi, token_serials)

\* C7, amended: the same for a list of pairwise distinct serials, the two
\* balances moving when sender and recipient differ and staying when they
\* are the same entity.
C7_TransferSucceeds ==
    \A from_fi \in Entities, to_fi \in Entities, token_serials \in SerialInputs :
        (AllOwned(db.tokens, token_serials, from_fi) /\ Distinct(token_serials))
        => LET r == transfer_tokens_between_fis(db, from_fi, to_fi, token_serials, clock)
           IN  /\ TransferMovedAll(db, r, to_fi, token_serials, clock)
               /\ from_fi # to_fi
                  => TransferMovedBalance(db, r, from_fi, to_fi, token_serials)
               /\ from_fi = to_fi => Balance(r.db, from_fi) = Balance(db, from_fi)

\* reached: the {100, 50} an institution was allocated have moved to the
\* other institution in one transfer of amount 150
C7_Witness ==
    /\ last.op = "transfer"
    /\ last.status = "success"
    /\ last.amount = 150
    /\ db.ledger[Len(db.ledger)].from_entity = "FI-A"
    /\ Balance(db, "FI-A") = 0
    /\ Balance(db, "FI-B") = 150

Registered(fi_id) == fi_id \in db.financial_institutions

\* whether some of the vault's active tokens sum to the amount exactly
VaultCombinesTo(d, amount) ==
    LET available == AvailableInVault(d)
    IN  \E chosen \in SUBSET (1..Len(available)) :
           SumSeq([ i \in 1..Len(available) |->
                      IF i \in chosen THEN available[i].denomination ELSE 0 ]) = amount

\* C8: for a registered institution and an amount > 0 allocate succeeds
\* whatever the vault holds: the institution's balance rises by the amount,
\* the tokens handed over are the institution's, with owner type fi, and one
\* allocation entry with that amount and those serials is appended.
\* The code breaks it: when the vault's largest tokens overshoot and the
\* smallest-first pass falls short, line 373 closes the connection, line 374
\* mints the whole amount and line 384 raises on the closed connection.
C8_AllocateSucceeds ==
    [][ \A fi_id \in FiIds, amount \in AmountInputs :
          ( /\ Allocate(fi_id, amount)
            /\ Registered(fi_id)
            /\ amount > 0 )
          => /\ last'.status = "success"
             /\ last'.amount = amount
             /\ Balance(db', fi_id) = Balance(db, fi_id) + amount
             /\ \A i \in 1..Len(last'.tokens) :
                   LET row == db'.tokens[last'.tokens[i].serial_number]
                   IN  row.current_owner = fi_id /\ row.owner_type = "fi"
             /\ Len(EntriesOfType(db', "allocation"))
                  = Len(EntriesOfType(db, "allocation")) + 1
             /\ LET entry == db'.ledger[Len(db'.ledger)]
                IN  /\ entry.transaction_type = "allocation"
                    /\ entry.to_entity = fi_id
                    /\ entry.total_amount = amount
                    /\ entry.token_serials = SerialsOf(last'.tokens) ]_vars

\* C9: when the vault is worth at least the amount but none of its tokens
\* combine to it exactly, allocate hands over the existing tokens that fit
\* and mints the shortfall only: supply rises by the amount less the value of
\* the tokens that fit, and the institution's balance by the amount
\* (vault of 100s, request of 150: one 100 handed over, one 50 minted).
\* The code breaks it: it mints the whole amount and then raises (see C8).
C9_MintsShortfallOnly ==
    [][ \A fi_id \in FiIds, amount \in AmountInputs :
          ( /\ Allocate(fi_id, amount)
            /\ Registered(fi_id)
            /\ amount > 0
            /\ Balance(db, "CB") >= amount
            /\ ~VaultCombinesTo(db, amount) )
          => LET fit == SelectExactTokens(SortedByDenomination(AvailableInVault(db)),
                                          amount, 1, 0)
             IN  /\ last'.status = "success"
                 /\ ActiveTotal(db') = ActiveTotal(db) + (amount - TokensAmount(fit))
                 /\ Balance(db', fi_id) = Balance(db, fi_id) + amount
                 /\ \A i \in 1..Len(fit) :
                       db'.tokens[fit[i].serial_number].current_owner = fi_id ]_vars

\* C10: allocate is all-or-nothing.  A call that does not return success
\* leaves every token, batch and ledger row as it was.
\* The code breaks it: the tokens mint_mixed_tokens committed on its own
\* connection stay when the call then raises (see C8).
C10_AllocateAllOrNothing ==
    [][ \A fi_id \in FiIds, amount \in AmountInputs :
          ( /\ Allocate(fi_id, amount)
            /\ last'.status # "success" )
          => /\ db'.tokens = db.tokens
             /\ db'.token_batches = db.token_batches
             /\ db'.ledger = db.ledger ]_vars

\* the amounts an allocation is asked for, refused ones included
AllocateAmounts == {-1, 0, 50, 150}

\* C18: allocate returns an error and changes nothing (no mint, no owner
\* change, no ledger entry) when the institution is not registered or when
\* the amount is zero or negative.
C18_AllocateRejects ==
    \A fi_id \in FiIds, amount \in AllocateAmounts :
        (fi_id \notin db.financial_institutions \/ amount <= 0)
            => LET r == api_allocate_to_fi(db, fi_id, amount, clock)
               IN  /\ r.status = "error"
                   /\ r.tokens = <<>>
                   /\ r.db = db

\* an allocation was refused with a funded vault and an institution registered
C18_Witness ==
    /\ last.op = "allocate"
    /\ last.status = "error"
    /\ Balance(db, "CB") >= 50
    /\ db.financial_institutions # {}

\* C23: the ledger log is append-only.  Every operation leaves the entries
\* the log holds as they are, with their id, kind, from, to, serials, amount
\* and timestamp, in their places; none is changed or removed.
C23_LedgerAppendOnly ==
    [][ /\ Len(db'.ledger) >= Len(db.ledger)
        /\ SubSeq(db'.ledger, 1, Len(db.ledger)) = db.ledger ]_vars

\* a transfer out of the vault has appended its entry after the mint's
C23_Witness ==
    /\ last.op = "transfer"
    /\ last.status = "success"
    /\ Len(db.ledger) >= 2
    /\ db.ledger[1].transaction_type = "mint"
    /\ db.ledger[Len(db.ledger)].transaction_type = "cross_fi_transfer"

\* the rows added to the tokens table by a step
AddedRows(before, after) ==
    SubSeq(after.tokens, Len(before.tokens) + 1, Len(after.tokens))

\* C24: once minted, a token keeps its serial, denomination, batch and
\* minted_at and is never deleted.  Allocate and transfer change only owner,
\* owner kind and last_transfer_at of the rows there are, so a transfer keeps
\* the total of the active denominations and an allocation changes it only
\* by the tokens minted on a shortfall.
C24_TokensImmutable ==
    [][ /\ Len(db'.tokens) >= Len(db.tokens)
        /\ \A i \in 1..Len(db.tokens) :
              /\ db'.tokens[i].serial_number = db.tokens[i].serial_number
              /\ db'.tokens[i].denomination = db.tokens[i].denomination
              /\ db'.tokens[i].batch_id = db.tokens[i].batch_id
              /\ db'.tokens[i].minted_at = db.tokens[i].minted_at
              /\ last'.op \in {"allocate", "transfer"}
                    => db'.tokens[i].status = db.tokens[i].status
        /\ last'.op = "transfer"
              => /\ Len(db'.tokens) = Len(db.tokens)
                 /\ ActiveTotal(db') = ActiveTotal(db)
        /\ last'.op = "allocate"
              => /\ ActiveTotal(db') = ActiveTotal(db)
                                         + TokensAmount(AddedRows(db, db'))
                 /\ AddedRows(db, db') # <<>>
                       => Len(db'.token_batches) > Len(db.token_batches) ]_vars

\* an allocation has moved tokens to an institution that were minted at an
\* earlier time
C24_Witness ==
    /\ last.op = "allocate"
    /\ last.status = "success"
    /\ \E i \in 1..Len(db.tokens) :
          /\ db.tokens[i].owner_type = "fi"
          /\ db.tokens[i].last_transfer_at > db.tokens[i].minted_at

(***************************************************************************)
(* Properties of concurrent transfers (specification SpecConc).            *)
(***************************************************************************)
\* two finished transfers that ran at the same time, out of the same
\* sender, and name a common serial
Raced(c, o) ==
    /\ c # o
    /\ conn[c].pc = "done"
    /\ conn[o].pc = "done"
    /\ (o \in conn[c].during \/ c \in conn[o].during)
    /\ conn[c].from_fi = conn[o].from_fi
    /\ conn[c].to_fi # conn[c].from_fi
    /\ conn[o].to_fi # conn[o].from_fi
    /\ Range(conn[c].token_serials) \cap Range(conn[o].token_serials) # {}

\* the ledger's transfer entries that name the serial
TransfersOf(d, serial) ==
    LET Names(e) == /\ e.transaction_type = "cross_fi_transfer"
                    /\ serial \in Range(e.token_serials)
    IN  SelectSeq(d.ledger, Names)

\* C4: of two transfers that race on a serial at most one succeeds; the
\* other fails (the claim names the ownership error; a call that gives up
\* waiting for the write lock is counted as failed too), the token ends
\* with the winner's recipient and one ledger entry records the move.
\* The code breaks it: both connections pass the ownership SELECT before
\* either UPDATE, the UPDATE does not test the owner, and the second commit
\* overwrites the first: both calls succeed and two entries are written.
C4_OneWinner ==
    \A c \in Connections, o \in Connections :
        (Raced(c, o) /\ conn[c].status = "success")
        => /\ conn[o].status # "success"
           /\ \A serial \in Range(conn[c].token_serials)
                            \cap Range(conn[o].token_serials) :
                 /\ db.tokens[serial].current_owner = conn[c].to_fi
                 /\ Len(TransfersOf(db, serial)) = 1

(***************************************************************************)
(* Properties of the nullifier registry and of sync (specification SpecSE) *)
(***************************************************************************)
RegistryValues(d) == { d.nullifiers[i].nullifier : i \in 1..Len(d.nullifiers) }

C6_SyncIdempotent ==
    \A owner \in SeOwners :
        LET once == sync(db, se[owner].queue, clock)
            twice == sync(once.db, once.queue, clock + 1)
        IN  /\ twice.db.tokens = once.db.tokens
            /\ twice.db.nullifiers = once.db.nullifiers
            /\ twice.db.ledger = once.db.ledger

\* the owner has synced twice in a row: the first sync settled a receipt,
\* and the second one replayed a receipt that is still queued
C6_Witness ==
    /\ last.op = "sync"
    /\ last.progress >= 2
    /\ "Conflict" \in Range(last.tokens)
    /\ db.nullifiers # <<>>

(***************************************************************************)
(* Properties of allocations under contention (specification SpecAlloc).   *)
(***************************************************************************)
\* C11: an allocate call mints for a shortfall at most once and selects at
\* most twice (the first attempt and one retry), whatever other calls take
\* out of the vault between its mint and its retry.
\* The code breaks it: the retry is an unconditional recursive call with no
\* counter, so every time another call empties the vault between the mint
\* and the retry the call mints again and retries again.
C11_BoundedRemint ==
    \A c \in Connections : conn[c].remints <= 1 /\ conn[c].attempts <= 2

(***************************************************************************)
(* Properties of the mints (specification Spec).                           *)
(***************************************************************************)
\* the inputs the mints are judged on in every reachable state
MintDenominations == {1, 3, 100, 2000}
MintCounts == {0, 1, 2, 10, 10001}
MintAmounts == {-1, 0, 1, 50, 150, 388}
MintMaps ==
    DenominationCountInputs
    \cup { <<<<2000, 2>>, <<1, 3>>, <<50, 1>>>>, <<<<100, 10001>>, <<50, 1>>>>,
           <<<<100, 2>>>> }

\* the rows a call added to the tokens table
AddedTokens(d, r) == SubSeq(r.db.tokens, Len(d.tokens) + 1, Len(r.db.tokens))

CountOfDenomination(ts, denomination) ==
    Cardinality({ i \in 1..Len(ts) : ts[i].denomination = denomination })

\* what every successful mint does: the rows it found stay as they were,
\* each new token is active, in the vault and has a serial of its own, and
\* one mint entry whose amount is the value added is appended to the ledger
MintedProperly(d, r) ==
    LET added == AddedTokens(d, r)
    IN  /\ Len(r.db.tokens) >= Len(d.tokens)
        /\ SubSeq(r.db.tokens, 1, Len(d.tokens)) = d.tokens
        /\ \A i \in 1..Len(added) :
              /\ added[i].status = "active"
              /\ added[i].current_owner = "CB"
              /\ \A j \in 1..Len(d.tokens) :
                    d.tokens[j].serial_number # added[i].serial_number
              /\ \A j \in 1..Len(added) :
                    added[j].serial_number = added[i].serial_number => i = j
        /\ Len(r.db.ledger) = Len(d.ledger) + 1
        /\ SubSeq(r.db.ledger, 1, Len(d.ledger)) = d.ledger
        /\ r.db.ledger[Len(r.db.ledger)].transaction_type = "mint"
        /\ r.db.ledger[Len(r.db.ledger)].total_amount = TokensAmount(added)
        /\ get_money_supply(r.db).total_minted
              = get_money_supply(d).total_minted + TokensAmount(added)

\* C12: a successful mint(d, c) adds exactly c tokens of denomination d, a
\* successful mintExact(m) adds m[d] tokens of every denomination d of m and
\* none of another, a successful mintMixed(a) adds tokens that sum to a; the
\* new tokens are active, in the vault, with fresh serials, and one ledger
\* entry of kind mint carries the value added.
C12_MintAdds ==
    /\ \A denomination \in MintDenominations, count \in MintCounts :
          LET r == mint_tokens(db, denomination, count, clock)
          IN  r.status = "success"
              => /\ MintedProperly(db, r)
                 /\ Len(AddedTokens(db, r)) = count
                 /\ CountOfDenomination(AddedTokens(db, r), denomination) = count
    /\ \A denomination_counts \in MintMaps :
          LET r == mint_specific_denominations(db, denomination_counts, clock)
              keys == { denomination_counts[i][1] :
                          i \in 1..Len(denomination_counts) }
          IN  r.status = "success"
              => /\ MintedProperly(db, r)
                 /\ \A i \in 1..Len(denomination_counts) :
                       CountOfDenomination(AddedTokens(db, r),
                                           denomination_counts[i][1])
                          = denomination_counts[i][2]
                 /\ \A i \in 1..Len(AddedTokens(db, r)) :
                       AddedTokens(db, r)[i].denomination \in keys
    /\ \A amount \in MintAmounts :
          LET r == mint_mixed_tokens(db, amount, clock)
          IN  r.status = "success"
              => /\ MintedProperly(db, r)
                 /\ TokensAmount(AddedTokens(db, r)) = amount

\* a map of two denominations has just been minted into a table that
\* already held tokens
C12_Witness ==
    /\ last.op = "mint_exact"
    /\ last.status = "success"
    /\ Len(last.tokens) = 2
    /\ Len(db.tokens) > 2
    /\ Len(db.ledger) >= 2

\* C13: a mint with a denomination outside the fixed set or a count
\* outside 1..10000, a mintExact whose map has such an entry, and a
\* mintMixed of an amount <= 0 return an error and leave the tokens, the
\* batch records and the ledger as they were; mintExact adds nothing for
\* the valid entries of a map with an invalid one.
C13_MintRejects ==
    /\ \A denomination \in MintDenominations, count \in MintCounts :
          LET r == mint_tokens(db, denomination, count, clock)
          IN  (denomination \notin DenominationSet \/ count < 1 \/ count > 10000)
              => r.status = "error" /\ r.db = db
    /\ \A denomination_counts \in MintMaps :
          LET r == mint_specific_denominations(db, denomination_counts, clock)
          IN  (\E i \in 1..Len(denomination_counts) :
                 \/ denomination_counts[i][1] \notin DenominationSet
                 \/ denomination_counts[i][2] < 1
                 \/ denomination_counts[i][2] > 10000)
              => r.status = "error" /\ r.db = db
    /\ \A amount \in MintAmounts :
          LET r == mint_mixed_tokens(db, amount, clock)
          IN  amount <= 0 => r.status = "error" /\ r.db = db

\* a map whose second entry is invalid has just been refused, on a table
\* that holds tokens
C13_Witness ==
    /\ last.op = "mint_exact"
    /\ last.status = "error"
    /\ db.tokens # <<>>

(***************************************************************************)
(* Properties of make_change (specification SpecChange).                   *)
(***************************************************************************)
\* C14: change correctness.  For an amount > 0 make_change returns members
\* of the fixed denomination set that sum to exactly the amount; for an
\* amount <= 0 it returns the empty sequence.
C14_ChangeCorrect ==
    last.op = "make_change"
    => IF last.amount > 0
       THEN /\ SumSeq(last.tokens) = last.amount
            /\ Range(last.tokens) \subseteq DenominationSet
       ELSE last.tokens = <<>>

\* make_change has answered an amount that takes several denominations,
\* some of them more than once
C14_Witness ==
    /\ last.op = "make_change"
    /\ last.amount = 2399
    /\ Len(last.tokens) > Cardinality(Range(last.tokens))

\* some multiset of at most k members of the set S sums to the amount: the
\* largest member d of S is taken c times and the rest is made of S \ {d};
\* k tokens of at most d each cannot pass k * d
RECURSIVE CanMake(_, _, _)
CanMake(S, amount, k) ==
    IF amount = 0 THEN TRUE
    ELSE IF S = {} \/ k = 0 THEN FALSE
    ELSE LET d == CHOOSE e \in S : \A f \in S : f <= e
         IN  /\ amount <= k * d
             /\ \E c \in 0..k :
                   /\ c * d <= amount
                   /\ CanMake(S \ {d}, amount - c * d, k - c)

\* C15: greedy optimality.  For every positive amount, no multiset of the
\* denominations that sums to the amount has fewer tokens than make_change
\* returns.
C15_GreedyOptimal ==
    (last.op = "make_change" /\ last.amount > 0)
    => /\ CanMake(DenominationSet, last.amount, Len(last.tokens))
       /\ ~CanMake(DenominationSet, last.amount, Len(last.tokens) - 1)

\* make_change has answered an amount above the largest denomination, with
\* nine tokens
C15_Witness ==
    /\ last.op = "make_change"
    /\ last.amount = 2499
    /\ Len(last.tokens) = 9


\* a nullifier of the receipt is in the registry
Consumed(d, receipt) == Range(receipt.nullifiers) \cap RegistryValues(d) # {}

\* the receipts of a queue whose outcome is Conflict, in queue order
RECURSIVE Conflicting(_, _)
Conflicting(queue, outcomes) ==
    IF queue = <<>> THEN <<>>
    ELSE (IF Head(outcomes) = "Conflict" THEN <<Head(queue)>> ELSE <<>>)
         \o Conflicting(Tail(queue), Tail(outcomes))

\* the database as the replay of the receipts before receipt i leaves it
ReplayedBefore(d, queue, i, timestamp) ==
    sync(d, SubSeq(queue, 1, i - 1), timestamp).db

\* C19: sync replays the queued receipts in queue order and reports one
\* outcome per receipt.  A receipt whose tokens the spender no longer owns
\* in the ledger when its turn comes is reported as Conflict and stays in
\* the queue; a receipt whose nullifiers are already consumed is reported as
\* AlreadySpent and leaves the queue; a receipt that settles leaves the queue
\* with its tokens owned by the recipient.
C19_SyncReports ==
    \A owner \in SeOwners :
        LET queue == se[owner].queue
            r == sync(db, queue, clock)
        IN  /\ Len(r.outcomes) = Len(queue)
            /\ r.queue = Conflicting(queue, r.outcomes)
            /\ \A i \in 1..Len(queue) :
                  LET receipt == queue[i]
                      before == ReplayedBefore(db, queue, i, clock)
                      after == ReplayedBefore(db, queue, i + 1, clock)
                      lost == ~AllOwned(before.tokens, receipt.token_serials,
                                        receipt.sender_public_key)
                  IN  /\ r.outcomes[i] \in {"Settled", "AlreadySpent", "Conflict"}
                      /\ Consumed(before, receipt) => r.outcomes[i] = "AlreadySpent"
                      /\ (lost /\ ~Consumed(before, receipt))
                            => r.outcomes[i] = "Conflict"
                      /\ r.outcomes[i] = "Conflict" => receipt \in Range(r.queue)
                      /\ r.outcomes[i] # "Conflict" => receipt \notin Range(r.queue)
                      /\ r.outcomes[i] # "Settled" => after = before
                      /\ r.outcomes[i] = "Settled"
                            => \A k \in 1..Len(receipt.token_serials) :
                                  after.tokens[receipt.token_serials[k]].current_owner
                                      = receipt.recipient_public_key

\* one sync settled the first receipt and reported the second, whose token
\* had left the spender, as a conflict that is still queued
C19_Witness ==
    /\ last.op = "sync"
    /\ last.tokens = <<"Settled", "Conflict">>
    /\ \E owner \in SeOwners : Len(se[owner].queue) = 1

\* se_balance: the value of the tokens staged in a secure element
SeBalance(d, s) == TokensAmount(StagedTokens(d, s))

\* C20: offlineTransaction changes the secure element's store only.  It
\* takes the selected tokens out of the store, lowering se_balance by their
\* sum, and appends exactly one receipt to the pending queue; the owners in
\* the ledger, the nullifier registry and the ledger log stay as they were.
\* A store that cannot cover the amount fails with InsufficientFunds and
\* queues nothing.
C20_OfflineIsLocal ==
    [][ \A owner \in SeOwners, to \in Wallets, amount \in PayInputs :
          OfflineTransaction(owner, to, amount)
          => LET before == se[owner]
                 after == se'[owner]
             IN  /\ db' = db
                 /\ IF SeBalance(db, before) < amount
                    THEN after = before
                    ELSE LET receipt == after.queue[Len(after.queue)]
                             moved == Range(receipt.token_serials)
                         IN  /\ after.queue = Append(before.queue, receipt)
                             /\ moved # {}
                             /\ moved \subseteq Range(before.tokens)
                             /\ Range(after.tokens) = Range(before.tokens) \ moved
                             /\ Len(after.tokens) = Len(before.tokens) - Len(receipt.token_serials)
                             /\ SeBalance(db', after)
                                   = SeBalance(db, before)
                                     - ListedAmount(db.tokens, receipt.token_serials)
                             /\ ListedAmount(db.tokens, receipt.token_serials) >= amount
                             /\ receipt.amount = amount
                             /\ receipt.sender_public_key = owner
                             /\ receipt.recipient_public_key = to
                             /\ after.online = before.online ]_vars

\* a payment of 50 out of a store of 100 and 50 is queued, unsynced: the
\* selection took the 100, the 50 stays in the store, and the ledger still
\* has the payer as the owner of both
C20_Witness ==
    /\ last.op = "local"
    /\ \E owner \in SeOwners :
          /\ Len(se[owner].queue) = 1
          /\ se[owner].queue[1].amount = 50
          /\ Len(se[owner].tokens) = 1
          /\ SeBalance(db, se[owner]) = 50
          /\ Balance(db, owner) = 150
    /\ db.nullifiers = <<>>
    /\ db.ledger = FundedDb.ledger

\* the sum of the denominations of the rows whose serials are in S
RECURSIVE DenominationsOf(_, _)
DenominationsOf(tokens, S) ==
    IF S = {} THEN 0
    ELSE LET serial == CHOOSE e \in S : TRUE
         IN  tokens[serial].denomination + DenominationsOf(tokens, S \ {serial})

\* C22: the offline lifecycle never creates or destroys value.  Across any
\* sequence of loadToSE, setOnlineStatus, offlineTransaction and sync,
\* se_balance is the sum of the denominations of the tokens staged in the
\* secure element, each staged once and each a token of the ledger, and the
\* total of the active denominations in the ledger stays what it was: no
\* token is added, removed, re-denominated or made inactive.
C22_ValueKept ==
    /\ ActiveTotal(db) = ActiveTotal(FundedDb)
    /\ Len(db.tokens) = Len(FundedDb.tokens)
    /\ \A i \in 1..Len(db.tokens) :
          /\ db.tokens[i].serial_number = FundedDb.tokens[i].serial_number
          /\ db.tokens[i].denomination = FundedDb.tokens[i].denomination
          /\ db.tokens[i].status = "active"
    /\ \A owner \in SeOwners :
          LET s == se[owner]
          IN  /\ Range(s.tokens) \subseteq 1..Len(db.tokens)
              /\ Cardinality(Range(s.tokens)) = Len(s.tokens)
              /\ SeBalance(db, s) = DenominationsOf(db.tokens, Range(s.tokens))

\* a sync settled a payment while the store still holds a token: the
\* recipient's balance rose and the ledger's total did not
C22_Witness ==
    /\ last.op = "sync"
    /\ "Settled" \in Range(last.tokens)
    /\ \E owner \in SeOwners : se[owner].tokens # <<>>
    /\ Balance(db, "W-2") > Balance(FundedDb, "W-2")

\* C30: setOnlineStatus changes only the online flag of the wallet or device
\* it names: the tokens staged in the secure element and se_balance, the
\* queue of pending receipts, the owner of every token in the ledger and the
\* ledger log are what they were.
C30_StatusOnly ==
    [][ \A owner \in SeOwners, is_online \in BOOLEAN :
          SetOnlineStatus(owner, is_online)
          => /\ se'[owner].online = is_online
             /\ se'[owner].tokens = se[owner].tokens
             /\ se'[owner].queue = se[owner].queue
             /\ SeBalance(db', se'[owner]) = SeBalance(db, se[owner])
             /\ \A other \in SeOwners \ {owner} : se'[other] = se[other]
             /\ db'.tokens = db.tokens
             /\ db'.ledger = db.ledger
             /\ db'.nullifiers = db.nullifiers ]_vars

\* a secure element that holds a token and a pending receipt went offline
C30_Witness ==
    /\ last.op = "local"
    /\ \E owner \in SeOwners :
          /\ ~se[owner].online
          /\ Len(se[owner].tokens) = 1
          /\ Len(se[owner].queue) = 1
          /\ SeBalance(db, se[owner]) = 50
    /\ db.ledger = FundedDb.ledger

(***************************************************************************)
(* Properties of the token selection (specification SpecSelect).           *)
(***************************************************************************)
\* the selected rows are rows of the bundle, none taken twice
SubCollection(selected, available) ==
    /\ \A i \in 1..Len(selected) : selected[i] \in Range(available)
    /\ \A i, j \in 1..Len(selected) : selected[i] = selected[j] => i = j

\* C16: for every bundle and every amount, select_for_payment returns
\* either a sub-collection of the bundle whose sum covers the amount, with
\* change = sum - amount, or, exactly when the bundle's total is below the
\* amount, an empty selection with the shortfall amount - total.
C16_SelectionSound ==
    last.op = "select_for_payment"
        => LET total == TokensAmount(db.tokens)
               sum == TokensAmount(last.tokens)
           IN  IF total < last.amount
               THEN last.tokens = <<>> /\ last.progress = last.amount - total
               ELSE /\ SubCollection(last.tokens, db.tokens)
                    /\ sum >= last.amount
                    /\ last.progress = sum - last.amount

\* a bundle holding 10, 20 and 50 in that order, asked for 60, gives the 50
\* and the 20 with change 10
C16_Witness ==
    /\ last.op = "select_for_payment"
    /\ Len(db.tokens) = 3
    /\ db.tokens[1].denomination = 10
    /\ last.amount = 60
    /\ Len(last.tokens) = 2
    /\ last.tokens[1] = db.tokens[3]
    /\ last.progress = 10


(***************************************************************************)
(* Properties of transfers over stored rows (specification SpecStatus).    *)
(***************************************************************************)
\* a serial of the list names a row whose status is not active
NamesInactive(tokens, token_serials) ==
    \E i \in 1..Len(token_serials), r \in 1..Len(tokens) :
        /\ tokens[r].serial_number = token_serials[i]
        /\ tokens[r].status # "active"

ReplaysOf(receipt, outcome) ==
    UNION { { <<c, i>> : i \in { j \in 1..Len(conn[c].outcomes) :
                                   /\ conn[c].queue[j] = receipt
                                   /\ conn[c].outcomes[j] = outcome } } :
            c \in Connections }

\* the ledger entries, after the funding, that move the receipt's tokens
ReceiptTransfers(d, receipt) ==
    { n \in (Len(FundedDb.ledger) + 1)..Len(d.ledger) :
        d.ledger[n].token_serials = receipt.token_serials }

C25_OwnershipVerified ==
    last.op = "verify_ownership_proof"
        => LET age == last.at - last.proof.timestamp
           IN  /\ (last.proof = last.issued
                     /\ last.expected = last.proof.public_key
                     /\ age <= FreshnessWindow) => last.result = TRUE
               /\ last.expected # last.proof.public_key => last.result = FALSE
               /\ age > FreshnessWindow => last.result = FALSE

\* a proof was accepted when exactly 5 minutes old
C25_Witness ==
    /\ last.op = "verify_ownership_proof"
    /\ last.at - last.proof.timestamp = FreshnessWindow
    /\ last.proof.token_serial # ""
    /\ last.result = TRUE


\* C26: a compliance proof reports is_compliant = true exactly when all five
\* limits hold: amount <= 50000, daily spent + amount <= 200000, monthly
\* spent + amount <= 1000000, not offline or amount <= 10000, and not an IoT
\* device or amount <= 5000; otherwise it reports false, and each check that
\* fails is marked false.
C26_ComplianceLimits ==
    last.op = "generate_compliance_proof"
        => LET amount == last.args[1]
               daily_spent == last.args[2]
               monthly_spent == last.args[3]
               is_offline == last.args[4]
               is_iot == last.args[5]
               checks == last.proof.checks
           IN  /\ checks.single_tx_valid <=> amount <= 50000
               /\ checks.daily_valid <=> daily_spent + amount <= 200000
               /\ checks.monthly_valid <=> monthly_spent + amount <= 1000000
               /\ checks.offline_valid <=> (~is_offline \/ amount <= 10000)
               /\ checks.iot_valid <=> (~is_iot \/ amount <= 5000)
               /\ last.proof.is_compliant
                     = PyBool(/\ amount <= 50000
                              /\ daily_spent + amount <= 200000
                              /\ monthly_spent + amount <= 1000000
                              /\ ~is_offline \/ amount <= 10000
                              /\ ~is_iot \/ amount <= 5000)

\* an IoT device one unit over its cap, within every other limit
C26_Witness ==
    /\ last.op = "generate_compliance_proof"
    /\ last.args = <<5001, 0, 0, TRUE, TRUE>>
    /\ last.proof.is_compliant = PyBool(FALSE)
    /\ last.proof.checks.offline_valid
    /\ ~last.proof.checks.iot_valid


\* C27: the verification of a compliance proof returns valid, with the
\* is_compliant value computed at generation, for a proof as generated that
\* is checked no later than 5 minutes after; it returns invalid when the
\* proof is older than 5 minutes, and when its is_compliant flag, its
\* commitment or its timestamp is not the value the verification tag was
\* derived from.
\* The code breaks it: the tag is recomputed from the text of the flag, so
\* the string "False" in the place of the boolean False verifies, and the
\* answer carries a flag that counts as true.
C27_ComplianceVerified ==
    last.op = "verify_compliance_proof"
        => /\ (last.proof = last.issued
                 /\ last.at - last.issued.timestamp <= FreshnessWindow)
                 => /\ last.result.valid
                    /\ last.result.is_compliant = last.issued.is_compliant
           /\ last.at - last.issued.timestamp > FreshnessWindow
                 => ~last.result.valid
           /\ ( \/ last.proof.is_compliant # last.issued.is_compliant
                \/ last.proof.commitment # last.issued.commitment
                \/ last.proof.timestamp # last.issued.timestamp )
                 => ~last.result.valid


\* C28: a transfer proof carries exactly one nullifier per listed serial, in
\* list order, each derived from that serial, the sender's secret and the one
\* nonce of the proof; within a proof distinct serials get distinct
\* nullifiers, and token_count is the number of nullifiers.
C28_OneNullifierPerSerial ==
    last.op = "generate_token_transfer_proof"
        => LET proof == last.proof
               sender == last.args[1]
               token_serials == last.args[3]
           IN  /\ Len(proof.nullifiers) = Len(token_serials)
               /\ \A i \in 1..Len(token_serials) :
                      proof.nullifiers[i]
                          = generate_nullifier(token_serials[i], sender, proof.nonce)
               /\ \A i, j \in 1..Len(token_serials) :
                      token_serials[i] # token_serials[j]
                          => proof.nullifiers[i] # proof.nullifiers[j]
               /\ proof.token_count = Len(proof.nullifiers)

\* a proof for three different serials
C28_Witness ==
    /\ last.op = "generate_token_transfer_proof"
    /\ last.args[3] = <<"100-A1", "50-B2", "20-C3">>
    /\ Len(last.proof.nullifiers) = 3
    /\ last.proof.nullifiers[1] # last.proof.nullifiers[3]
    /\ last.proof.token_count = 3


(***************************************************************************)
(* Properties of concurrent transfers of disjoint tokens (specification    *)
(* SpecPar).                                                               *)
(***************************************************************************)
\* the transfer of connection c, made alone on database d
Alone(d, c) ==
    transfer_tokens_between_fis(d, conn[c].from_fi, conn[c].to_fi,
                                conn[c].token_serials, conn[c].timestamp)

\* the ledger entries after the first n, without their ids
EntriesAfter(ledger, n) ==
    { [ ledger[i] EXCEPT !.id = "" ] : i \in (n + 1)..Len(ledger) }

\* both transfers are over, they ran at the same time, they name no common
\* serial, and each of them made alone succeeds
DisjointPair ==
    /\ conn[1].pc = "done"
    /\ conn[2].pc = "done"
    /\ (1 \in conn[2].during \/ 2 \in conn[1].during)
    /\ Range(conn[1].token_serials) \cap Range(conn[2].token_serials) = {}
    /\ Alone(HeldDb, 1).status = "success"
    /\ Alone(HeldDb, 2).status = "success"

\* C29: two transfers over disjoint sets of serials that run concurrently
\* both succeed, and the owners of the tokens and the two entries added to
\* the ledger are those of the two transfers made one after the other, in
\* either order.
\* The code breaks it: the transfer that waits for the write lock of the
\* other longer than the connection's timeout raises and moves nothing.
C29_DisjointTransfersSucceed ==
    DisjointPair
        => /\ conn[1].status = "success"
           /\ conn[2].status = "success"
           /\ \A c \in Connections :
                 LET o == CHOOSE x \in Connections : x # c
                     after == Alone(Alone(HeldDb, c).db, o).db
                 IN  /\ db.tokens = after.tokens
                     /\ Len(db.ledger) = Len(HeldDb.ledger) + 2
                     /\ EntriesAfter(db.ledger, Len(HeldDb.ledger))
                            = EntriesAfter(after.ledger, Len(HeldDb.ledger))


(***************************************************************************)
(* Properties of allocations out of a mixed vault (specification           *)
(* SpecVault).                                                             *)
(***************************************************************************)
\* C31: allocate mints new tokens only when no subset of the vault's active
\* tokens sums to exactly the amount asked; whenever there is such a subset
\* the allocation is served from the existing tokens alone and the total
\* supply stays what it was.
\* The code breaks it: the smallest-first pass takes every token that still
\* fits, so out of a vault of 20, 50 and 100 a request of 50 takes the 20,
\* finds the 50 too large, and mints 50 (and then raises, see C8).
C31_MintsOnlyWithoutSubset ==
    [][ \A fi_id \in FiIds, amount \in VaultAmounts :
          ( /\ Allocate(fi_id, amount)
            /\ VaultCombinesTo(db, amount) )
          => /\ last'.status = "success"
             /\ Len(db'.tokens) = Len(db.tokens)
             /\ ActiveTotal(db') = ActiveTotal(db)
             /\ Balance(db', fi_id) = Balance(db, fi_id) + amount ]_vars


(***************************************************************************)
(* Properties of concurrent allocations (specification SpecRace).          *)
(***************************************************************************)
\* the amounts the successful allocations to the institution reported
ReportedTo(fi_id) ==
    LET Reported(c) == IF conn[c].status = "success" /\ conn[c].to_fi = fi_id
                       THEN conn[c].total ELSE 0
    IN  Reported(1) + Reported(2)

\* C32: two allocations that run concurrently never hand over the same
\* token: a serial is in the token list of at most one successful allocation,
\* and when both are over every institution's balance has risen by what its
\* allocations reported (the institutions start with nothing).
\* The code breaks it: both calls read the vault before either writes, both
\* select the same token, and the UPDATE of the second, which tests the
\* serial only, takes the token from the institution of the first.
C32_NoTokenTwice ==
    ( /\ conn[1].pc = "done"
      /\ conn[2].pc = "done"
      /\ (1 \in conn[2].during \/ 2 \in conn[1].during) )
    => /\ (conn[1].status = "success" /\ conn[2].status = "success")
            => Range(SerialsOf(conn[1].selected))
                  \cap Range(SerialsOf(conn[2].selected)) = {}
       /\ \A fi_id \in FiIds : Balance(db, fi_id) = ReportedTo(fi_id)


(***************************************************************************)
(* Properties of the amounts of transfers (specification Spec).            *)
(***************************************************************************)
\* C33: a serial that is more than once in a transfer's list is counted
\* once: for every successful transfer, one from an entity to itself
\* included, the amount of the ledger entry it appends and the amount it
\* returns are the sum of the denominations of the distinct tokens named.
\* The code breaks it: from an entity to itself the ownership test passes
\* at every occurrence of the serial, and the loop adds the denomination
\* each time.
C33_CountedOnce ==
    /\ \A i \in 1..Len(db.ledger) :
          db.ledger[i].transaction_type = "cross_fi_transfer"
             => db.ledger[i].total_amount
                  = DenominationsOf(db.tokens, Range(db.ledger[i].token_serials))
    /\ (last.op = "transfer" /\ last.status = "success")
          => last.amount
               = DenominationsOf(db.tokens,
                                 Range(db.ledger[Len(db.ledger)].token_serials))


(***************************************************************************)
(* Properties of break_token (specification SpecBreak).                    *)
(***************************************************************************)
\* C34: break_token creates and destroys no value: for every token and every
\* integer target amount (below, at or above the denomination, zero or
\* negative) the denominations for the recipient and for the sender sum
\* together to the token's denomination, and the recipient's sum to the
\* target amount whenever there are any.
\* The code breaks it: a negative target is below the denomination, so the
\* sender's change is make_change(denomination - target_amount), which is
\* worth more than the token.
C34_BreakKeepsValue ==
    last.op = "break_token"
        => /\ SumSeq(last.by.recipient) + SumSeq(last.by.sender)
                 = last.tokens[1].denomination
           /\ last.by.recipient # <<>>
                 => SumSeq(last.by.recipient) = last.amount


(***************************************************************************)
(* Properties of the freshness of proofs (specification SpecZkp).          *)
(***************************************************************************)
\* C35: both verifiers accept a proof only while its age is between 0 and 5
\* minutes: a proof whose timestamp is in the verifier's future (a negative
\* age) is rejected, so that no proof stays acceptable longer than the
\* window.
\* The code breaks it: both verifiers test age > 5 * 60 * 1000 only, and a
\* negative age is not above the window.
C35_NoFutureProofs ==
    LET age == last.at - last.proof.timestamp
    IN  /\ (last.op = "verify_ownership_proof" /\ last.result = TRUE)
              => (0 <= age /\ age <= FreshnessWindow)
        /\ (last.op = "verify_compliance_proof" /\ last.result.valid)
              => (0 <= age /\ age <= FreshnessWindow)


\* C36: the compliance result is tamper evident: whenever the verification
\* of a compliance proof returns valid, the checks it returns are the ones
\* computed at generation and the is_compliant it returns is their
\* conjunction; a proof whose checks or nonce were altered after generation,
\* its tag left as it was, is rejected.
\* The code breaks it: the tag covers the commitment, the timestamp and the
\* flag, and the commitment is never recomputed from the checks and the
\* nonce, so altered checks and an altered nonce verify.
C36_TamperEvident ==
    last.op = "verify_compliance_proof"
        => /\ last.result.valid
                 => /\ last.result.checks = last.issued.checks
                    /\ last.result.is_compliant
                          = PyBool(AllChecks(last.result.checks))
           /\ ( \/ last.proof.checks # last.issued.checks
                \/ last.proof.nonce # last.issued.nonce )
                 => ~last.result.valid


(***************************************************************************)
(* Properties of the nullifiers of one token (specification SpecZkp).      *)
(***************************************************************************)
\* C37: the nullifier of a token is the same in every spend by the same
\* owner: a transfer proof the sender of the last one generates next, over
\* a list that names a serial of the last one, carries the same nullifier
\* for that serial, so that the second spend of the token finds its
\* nullifier consumed.
\* The code breaks it: every proof draws its own nonce (line 112) and the
\* nonce is part of what the nullifier hashes, so the nullifiers of one
\* token in two proofs differ.
C37_SameNullifier ==
    last.op = "generate_token_transfer_proof"
        => \A token_serials \in TransferSerialLists :
              LET spent == last.args[3]
                  next == generate_token_transfer_proof(last.args[1], last.args[2],
                                                        token_serials, last.args[4],
                                                        nonces + 1, clock)
              IN  \A i \in 1..Len(spent), j \in 1..Len(token_serials) :
                     token_serials[j] = spent[i]
                        => next.nullifiers[j] = last.proof.nullifiers[i]


(***************************************************************************)
(* Properties of the ledger log against the token table (specification     *)
(* Spec).                                                                  *)
(***************************************************************************)
\* the amounts of the entries that name the entity as recipient (allocations
\* and transfers) less those of the transfers that name it as sender
LedgerBalance(d, entity) ==
    LET Received(e) == /\ e.transaction_type \in {"allocation", "cross_fi_transfer"}
                       /\ e.to_entity = entity
        Sent(e) == /\ e.transaction_type = "cross_fi_transfer"
                   /\ e.from_entity = entity
    IN  SumAmounts(SelectSeq(d.ledger, Received)) - SumAmounts(SelectSeq(d.ledger, Sent))

\* C38: the ledger log explains the token table: with the calls made one at
\* a time, at every point and for every institution, the amounts of the
\* entries that name it as recipient less the amounts of the transfers that
\* name it as sender are its balance, the sum of the active tokens it owns.
C38_LedgerExplainsTokens ==
    \A fi_id \in FiIds : LedgerBalance(db, fi_id) = Balance(db, fi_id)

\* two tokens went from the vault to FI-A and one of them on to FI-B
C38_Witness ==
    /\ last.op = "transfer"
    /\ last.status = "success"
    /\ Balance(db, "FI-A") = 100
    /\ Balance(db, "FI-B") = 100
    /\ \E i \in 1..Len(db.ledger) :
          /\ db.ledger[i].transaction_type = "cross_fi_transfer"
          /\ db.ledger[i].from_entity = "FI-A"
          /\ db.ledger[i].to_entity = "FI-B"

=============================================================================
